---------------------------- MODULE Spec2Model ----------------------------
(***************************************************************************)
(* A model of the seaf2xlsx converters.                                    *)
(*                                                                         *)
(*   _seaf2_xlsx_to_yaml.py   workbook -> company-scoped (SEAF2) fragments *)
(*   _seaf2_yaml_to_xlsx.py   company-scoped fragments -> workbook         *)
(*   xlsx_to_yaml.py          workbook -> flat-singular (SEAF1) fragments, *)
(*                            followed by validate_refs                    *)
(*                                                                         *)
(* Representation of Python values.                                        *)
(*   - A str is a sequence of characters.  A character is a one-letter     *)
(*     TLA+ string; a character outside printable ASCII is written as its  *)
(*     code point ("U0434" is the Cyrillic letter de, "nbsp" is U+00A0).   *)
(*   - None is the one-element sequence NoneV, the pandas empty cell (NaN) *)
(*     is NaN: neither is a sequence of characters.                        *)
(*   - An int n is <<"int">> \o its decimal digits, a float with an        *)
(*     integral value is <<"float">> \o the digits of that value.          *)
(*   - A list is a sequence of values; a dict with insertion order (every  *)
(*     collection of entities) is a sequence of records [id, e]; an entity *)
(*     is a function from field names to values, a row a function from     *)
(*     column names to cells.                                              *)
(*   - Sheet and column names are keys that the code only compares as a    *)
(*     whole; the Cyrillic ones are written in Latin transliteration, the  *)
(*     original is given where the name is introduced.                     *)
(***************************************************************************)
EXTENDS Integers, Sequences, FiniteSets, TLC

VARIABLES
    pc,         \* position in the pipeline of the specification at hand
    inputs,     \* cfg['xlsx_files']: the sequence of workbooks main() reads
    fidx,       \* index of the workbook the loop of main() is at
    out_dir,    \* the output directory: fragment name -> fragment
    processed,  \* main(): processed / processed_something
    src_counts, \* main(): result of count_entities_in_xlsx
    dst_counts, \* main(): result of count_entities_in_yaml_dir
    stderr,     \* diagnostics printed so far, in order
    exit_code,  \* 0, 1 or "running"
    run,        \* 1: first conversion, 2: conversion of the workbooks written back
    doc_first,  \* the output directory of run 1, kept for comparison; run_tests.py: the source document
    xlsx_out,   \* workbooks written by _seaf2_yaml_to_xlsx.py; run_tests.py: the final workbooks
    report,     \* xlsx_to_yaml.py: the validation report; run_tests.py: the differences found
    net_id,     \* argument of derive_location_from_network
    derived,    \* its result
    svc_val,    \* a service-type value: argument of normalize_val / normalize_svc_type
    svc_cell,   \* the cell normalize_val wrote, as pandas reads it back
    svc_type    \* the result of normalize_svc_type

vars == <<pc, inputs, fidx, out_dir, processed, src_counts, dst_counts, stderr, exit_code,
          run, doc_first, xlsx_out, report, net_id, derived, svc_val, svc_cell, svc_type>>

-----------------------------------------------------------------------------
(* Python values *)

NoneV == <<"None">>
NaN == <<"NaN">>

Digits == {"0", "1", "2", "3", "4", "5", "6", "7", "8", "9"}
LowerAscii == {"a","b","c","d","e","f","g","h","i","j","k","l","m",
               "n","o","p","q","r","s","t","u","v","w","x","y","z"}
UpperAscii == {"A","B","C","D","E","F","G","H","I","J","K","L","M",
               "N","O","P","Q","R","S","T","U","V","W","X","Y","Z"}

\* what \s and str.strip() treat as white space
WhiteSpace == {" ", "\t", "\n", "\r", "\f", "nbsp"}

IsInt(v) == Len(v) >= 1 /\ v[1] = "int"
IsFloat(v) == Len(v) >= 1 /\ v[1] = "float"
IsStr(v) == v # NoneV /\ v # NaN /\ ~IsInt(v) /\ ~IsFloat(v)

\* str(v) for a cell or field value
PyStr(v) ==
    IF v = NoneV THEN <<"N", "o", "n", "e">>
    ELSE IF v = NaN THEN <<"n", "a", "n">>
    ELSE IF IsInt(v) THEN Tail(v)
    ELSE IF IsFloat(v) THEN Tail(v) \o <<".", "0">>
    ELSE v

\* bool(v): None and '' are false, NaN (a non-zero float) is true
Truthy(v) == v # NoneV /\ v # <<>> /\ v # <<"int", "0">> /\ v # <<"float", "0">>

\* a or b
PyOr(a, b) == IF Truthy(a) THEN a ELSE b

SeqToSet(l) == {l[i] : i \in 1..Len(l)}

\* str.lower() on ASCII and Cyrillic letters
CyrUpper ==
    <<"U0410", "U0411", "U0412", "U0413", "U0414", "U0415", "U0416", "U0417", "U0418", "U0419", "U041A", "U041B", "U041C", "U041D", "U041E", "U041F", "U0420", "U0421", "U0422", "U0423", "U0424", "U0425", "U0426", "U0427", "U0428", "U0429", "U042A", "U042B", "U042C", "U042D", "U042E", "U042F">>
CyrLower ==
    <<"U0430", "U0431", "U0432", "U0433", "U0434", "U0435", "U0436", "U0437", "U0438", "U0439", "U043A", "U043B", "U043C", "U043D", "U043E", "U043F", "U0440", "U0441", "U0442", "U0443", "U0444", "U0445", "U0446", "U0447", "U0448", "U0449", "U044A", "U044B", "U044C", "U044D", "U044E", "U044F">>
AsciiUpperSeq ==
    <<"A","B","C","D","E","F","G","H","I","J","K","L","M",
      "N","O","P","Q","R","S","T","U","V","W","X","Y","Z">>
AsciiLowerSeq ==
    <<"a","b","c","d","e","f","g","h","i","j","k","l","m",
      "n","o","p","q","r","s","t","u","v","w","x","y","z">>
LowerMap ==
    [c \in SeqToSet(AsciiUpperSeq \o CyrUpper) |->
        (AsciiLowerSeq \o CyrLower)[CHOOSE i \in 1..Len(AsciiUpperSeq \o CyrUpper) : (AsciiUpperSeq \o CyrUpper)[i] = c]]

Lower(s) == [i \in 1..Len(s) |-> IF s[i] \in DOMAIN LowerMap THEN LowerMap[s[i]] ELSE s[i]]

\* s[a..b] (1-based, inclusive), empty when a > b
Slice(s, a, b) == IF a > b THEN <<>> ELSE SubSeq(s, a, b)

\* str.strip()
RECURSIVE LStrip(_)
LStrip(s) == IF s # <<>> /\ Head(s) \in WhiteSpace THEN LStrip(Tail(s)) ELSE s
RECURSIVE RStrip(_)
RStrip(s) == IF s # <<>> /\ s[Len(s)] \in WhiteSpace THEN RStrip(Slice(s, 1, Len(s) - 1)) ELSE s
Strip(s) == RStrip(LStrip(s))

\* str.rstrip(chars)
RECURSIVE RStripChars(_, _)
RStripChars(s, chars) ==
    IF s # <<>> /\ s[Len(s)] \in chars THEN RStripChars(Slice(s, 1, Len(s) - 1), chars) ELSE s

\* s.replace(c, d) for single characters c in cs
ReplaceChars(s, cs, d) == [i \in 1..Len(s) |-> IF s[i] \in cs THEN d ELSE s[i]]

\* re.sub(r'\s+', rep, s): every maximal run of white space becomes rep
\* (rep is '' or ' ' at every call: of a run, its first character stays, as
\* rep, when rep is not empty)
SubWsRuns(s, rep) ==
    LET marked == [i \in 1..Len(s) |->
                      [c |-> s[i], first |-> i = 1 \/ s[i - 1] \notin WhiteSpace]]
        kept == SelectSeq(marked, LAMBDA x : x.c \notin WhiteSpace \/ (x.first /\ rep # <<>>))
    IN  [i \in 1..Len(kept) |-> IF kept[i].c \in WhiteSpace THEN rep[1] ELSE kept[i].c]

\* re.split on a class of single characters: every separator ends a piece
RECURSIVE SplitOn(_, _)
SplitOn(s, seps) ==
    IF \A i \in 1..Len(s) : s[i] \notin seps THEN <<s>>
    ELSE LET k == CHOOSE i \in 1..Len(s) : s[i] \in seps /\ \A j \in 1..(i - 1) : s[j] \notin seps
         IN  <<Slice(s, 1, k - 1)>> \o SplitOn(Slice(s, k + 1, Len(s)), seps)

\* the characters of s before its first character outside cls
RECURSIVE TakeWhile(_, _)
TakeWhile(s, cls) ==
    IF s # <<>> /\ Head(s) \in cls THEN <<Head(s)>> \o TakeWhile(Tail(s), cls) ELSE <<>>

RECURSIVE DropWhile(_, _)
DropWhile(s, cls) == IF s # <<>> /\ Head(s) \in cls THEN DropWhile(Tail(s), cls) ELSE s

\* re.split(r'[seps]+', s): a maximal run of separators ends a piece
RECURSIVE SplitRuns(_, _)
SplitRuns(s, seps) ==
    IF \A i \in 1..Len(s) : s[i] \notin seps THEN <<s>>
    ELSE LET k == CHOOSE i \in 1..Len(s) : s[i] \in seps /\ \A j \in 1..(i - 1) : s[j] \notin seps
         IN  <<Slice(s, 1, k - 1)>> \o SplitRuns(DropWhile(Slice(s, k, Len(s)), seps), seps)

\* sep.join(parts)
RECURSIVE Join(_, _)
Join(parts, sep) ==
    IF parts = <<>> THEN <<>>
    ELSE IF Len(parts) = 1 THEN parts[1]
    ELSE parts[1] \o sep \o Join(Tail(parts), sep)

StartsWith(s, p) == Len(s) >= Len(p) /\ Slice(s, 1, Len(p)) = p

\* the 1-based positions at which p occurs in s
Occurrences(s, p) == {i \in 1..(Len(s) - Len(p) + 1) : Slice(s, i, i + Len(p) - 1) = p}

Min(S) == CHOOSE x \in S : \A y \in S : x <= y

\* the elements of a list, its elements kept in order without those failing keep
RECURSIVE SelectTruthy(_)
SelectTruthy(l) ==
    IF l = <<>> THEN <<>>
    ELSE IF Truthy(Head(l)) THEN <<Head(l)>> \o SelectTruthy(Tail(l)) ELSE SelectTruthy(Tail(l))

\* the order of characters by code point, for sorted()
CharOrder ==
    <<"\t", "\n", "\f", "\r", " ", "+", ",", "-", ".", "/",
      "0", "1", "2", "3", "4", "5", "6", "7", "8", "9", ":", ";",
      "A", "B", "C", "D", "E", "F", "G", "H", "I", "J", "K", "L", "M",
      "N", "O", "P", "Q", "R", "S", "T", "U", "V", "W", "X", "Y", "Z", "_",
      "a", "b", "c", "d", "e", "f", "g", "h", "i", "j", "k", "l", "m",
      "n", "o", "p", "q", "r", "s", "t", "u", "v", "w", "x", "y", "z", "nbsp">>

Ord(c) == IF \E i \in 1..Len(CharOrder) : CharOrder[i] = c
          THEN CHOOSE i \in 1..Len(CharOrder) : CharOrder[i] = c
          ELSE Len(CharOrder) + 1

\* a < b for str
RECURSIVE StrLess(_, _)
StrLess(a, b) ==
    IF b = <<>> THEN FALSE
    ELSE IF a = <<>> THEN TRUE
    ELSE IF Head(a) = Head(b) THEN StrLess(Tail(a), Tail(b))
    ELSE Ord(Head(a)) < Ord(Head(b))

\* sorted(l) for a list of str
RECURSIVE Sorted(_)
Sorted(l) ==
    IF l = <<>> THEN <<>>
    ELSE LET k == CHOOSE i \in 1..Len(l) :
                      /\ \A j \in 1..Len(l) : ~StrLess(l[j], l[i])
                      /\ \A j \in 1..(i - 1) : l[j] # l[i]
         IN  <<l[k]>> \o Sorted(Slice(l, 1, k - 1) \o Slice(l, k + 1, Len(l)))

-----------------------------------------------------------------------------
(* Value normalizer: _seaf2_xlsx_to_yaml.py and xlsx_to_yaml.py *)

\* the literals ws_clean treats as null: "nan", "none", "null", "n/a", "na", ""
NullTokens ==
    { <<"n", "a", "n">>, <<"n", "o", "n", "e">>, <<"n", "u", "l", "l">>,
      <<"n", "/", "a">>, <<"n", "a">>, <<>> }

\* ws_clean(s); the two converters define it alike
ws_clean(s) ==
    IF s = NoneV THEN NoneV
    ELSE IF s = NaN THEN NoneV
    ELSE LET t == PyStr(s) IN
         IF t = <<>> THEN NoneV
         ELSE LET u == Strip(SubWsRuns(ReplaceChars(t, {"nbsp", "\t", "\n", "\r"}, " "), <<" ">>)) IN
              IF Lower(u) \in NullTokens THEN NoneV ELSE u

\* id_clean(s) of _seaf2_xlsx_to_yaml.py: re.sub(r'\s+', '', s) if s else None
id_clean(s) ==
    LET c == ws_clean(s) IN
    IF Truthy(c) THEN SubWsRuns(c, <<>>) ELSE NoneV

\* id_clean(s) of xlsx_to_yaml.py: re.sub(r'\s+', '', s) or None
seaf1_id_clean(s) ==
    LET c == ws_clean(s) IN
    IF c = NoneV THEN NoneV
    ELSE LET r == SubWsRuns(c, <<>>) IN IF r = <<>> THEN NoneV ELSE r

\* [t for p in pieces if (t := id_clean(p))]
RECURSIVE CleanIds(_)
CleanIds(pieces) ==
    IF pieces = <<>> THEN <<>>
    ELSE LET t == id_clean(Head(pieces)) IN
         IF Truthy(t) THEN <<t>> \o CleanIds(Tail(pieces)) ELSE CleanIds(Tail(pieces))

\* the body of the loop over lines in parse_multiline_ids
RECURSIVE ParseLines(_)
ParseLines(lines) ==
    IF lines = <<>> THEN <<>>
    ELSE LET line == Strip(Head(lines))
             body == IF StartsWith(line, <<"-">>) THEN Strip(Tail(line)) ELSE line
         IN  IF line = <<>> THEN ParseLines(Tail(lines))
             ELSE CleanIds(SplitOn(body, {";", ","})) \o ParseLines(Tail(lines))

\* parse_multiline_ids(val) for a cell (the list branch is never taken for a cell)
parse_multiline_ids(val) ==
    IF val = NoneV THEN <<>>
    ELSE ParseLines(SplitOn(ReplaceChars(PyStr(val), {"\r"}, "\n"), {"\n"}))

\* parse_locations(val)
parse_locations(val) ==
    IF val = NoneV THEN <<>>
    ELSE LET s == ws_clean(PyStr(val)) IN
         IF Truthy(s) THEN CleanIds(SplitRuns(s, {";", ","} \cup WhiteSpace)) ELSE <<>>

\* to_list(val) of xlsx_to_yaml.py for a cell
to_list(val) ==
    IF val = NoneV THEN <<>>
    ELSE LET s == PyOr(ws_clean(PyStr(val)), <<>>) IN CleanIds(SplitOn(s, {";", ","}))

\* s.split('.')
SplitDot(s) == SplitOn(s, {"."})

\* s.split('.')[-1]
LastDotPart(s) == LET p == SplitDot(s) IN p[Len(p)]

\* s.split('.')[0] if '.' in s else dflt
PrefixOf(s, dflt) == IF "." \in SeqToSet(s) THEN SplitDot(s)[1] ELSE dflt

-----------------------------------------------------------------------------
(* Identifier and location model *)

OfficeTokenChars == LowerAscii \cup UpperAscii \cup Digits \cup {"-"}

\* the positions where re.search(r'\.dc(\d+)', s) can match
DcMatches(s) == {i \in Occurrences(s, <<".", "d", "c">>) : i + 3 <= Len(s) /\ s[i + 3] \in Digits}

\* the positions where re.search(r'\.office\.([a-zA-Z0-9-]+)', s) can match
OfficeMatches(s) ==
    {i \in Occurrences(s, <<".", "o", "f", "f", "i", "c", "e", ".">>) :
        i + 8 <= Len(s) /\ s[i + 8] \in OfficeTokenChars}

\* parts.index(x), 0 when x is not in parts (ValueError in the code)
IndexOf(parts, x) ==
    IF \E i \in 1..Len(parts) : parts[i] = x
    THEN Min({i \in 1..Len(parts) : parts[i] = x})
    ELSE 0

\* derive_location_from_network(net_id), the same in both SEAF2 converters
derive_location_from_network(nid) ==
    IF ~Truthy(nid) THEN NoneV
    ELSE LET prefix == PrefixOf(nid, <<"s", "e", "a", "f">>)
             dcs == DcMatches(nid)
             parts == SplitDot(nid)
             idx == IndexOf(parts, <<"o", "f", "f", "i", "c", "e">>)
         IN  IF dcs # {}
             THEN prefix \o <<".", "d", "c", ".">> \o TakeWhile(Slice(nid, Min(dcs) + 3, Len(nid)), Digits)
             ELSE IF OfficeMatches(nid) # {}
             THEN IF idx = 0 THEN NoneV
                  ELSE IF idx + 1 <= Len(parts) /\ parts[idx + 1] \notin {<<"l", "a", "n">>, <<"w", "a", "n">>}
                       THEN prefix \o <<".", "o", "f", "f", "i", "c", "e", ".">> \o parts[idx + 1]
                       ELSE prefix \o <<".", "o", "f", "f", "i", "c", "e">>
             ELSE NoneV

-----------------------------------------------------------------------------
(* Dicts, rows, workbooks and the output directory *)

\* d.get(k): an entity or a row is a function, a missing key gives None
Get(d, k) == IF k \in DOMAIN d THEN d[k] ELSE NoneV

\* d.get(k, 0)
Get0(d, k) == IF k \in DOMAIN d THEN d[k] ELSE 0

\* a dict of entities keeps insertion order: a sequence of [id, e]
DictKeys(d) == [i \in 1..Len(d) |-> d[i].id]
DictIds(d) == {d[i].id : i \in 1..Len(d)}
DictGet(d, k) == (CHOOSE i \in 1..Len(d) : d[i].id = k) \* only for k in DictIds(d)
DictVal(d, k) == d[DictGet(d, k)].e

\* d[k] = v: a new key is appended, an existing key keeps its place
DictSet(d, k, v) ==
    IF k \in DictIds(d)
    THEN [i \in 1..Len(d) |-> IF d[i].id = k THEN [id |-> k, e |-> v] ELSE d[i]]
    ELSE Append(d, [id |-> k, e |-> v])

\* d.update(other)
DictUpdate(d, other) ==
    LET F[i \in 0..Len(other)] == IF i = 0 THEN d ELSE DictSet(F[i - 1], other[i].id, other[i].e)
    IN  F[Len(other)]

\* a dict as a map, which is what == on two dicts compares
DictMap(d) == [k \in DictIds(d) |-> DictVal(d, k)]

\* for index, row in rows: st = Body(st, row, index)
LoopRows(rows, st0, Body(_, _, _)) ==
    LET F[i \in 0..Len(rows)] == IF i = 0 THEN st0 ELSE Body(F[i - 1], rows[i].row, rows[i].index)
    IN  F[Len(rows)]

\* A workbook is a function from sheet names to sheets; a sheet is a sequence of
\* rows, each a function from the column names of the sheet to cells.
HasSheet(xls, name) == name \in DOMAIN xls
AnySheet(xls, names) == \E n \in names : HasSheet(xls, n)

\* non_empty_rows(xls.parse(name)): dropna(how='all'), each row with its index
RECURSIVE NonEmptyFrom(_, _)
NonEmptyFrom(sheet, i) ==
    IF i > Len(sheet) THEN <<>>
    ELSE IF \A c \in DOMAIN sheet[i] : sheet[i][c] = NaN
         THEN NonEmptyFrom(sheet, i + 1)
         ELSE <<[index |-> i - 1, row |-> sheet[i]]>> \o NonEmptyFrom(sheet, i + 1)
non_empty_rows(sheet) == NonEmptyFrom(sheet, 1)

\* Sheet names (the originals are Cyrillic)
SheetRegions == "Regiony"                \* 'Регионы'
SheetAZ == "AZ"
SheetDC == "DC"
SheetOffices == "Ofisy"                  \* 'Офисы'
SheetSegments == "Segmenty"              \* 'Сегменты'
SheetNetworks == "Seti"                  \* 'Сети'
SheetDevices == "Setevye ustrojstva"     \* 'Сетевые устройства'
SheetDevicesGarbled == "??????? ??????????"
SheetKB == "Servisy KB"                  \* 'Сервисы КБ'
SheetTech == "Teh. servisy"              \* 'Тех. сервисы'
SheetTechEn == "Tech Services"

\* Fragment names
FnRegion == <<"d", "c", "_", "r", "e", "g", "i", "o", "n", ".", "y", "a", "m", "l">>
FnAz == <<"d", "c", "_", "a", "z", ".", "y", "a", "m", "l">>
FnDc == <<"d", "c", ".", "y", "a", "m", "l">>
FnDcOffice == <<"d", "c", "_", "o", "f", "f", "i", "c", "e", ".", "y", "a", "m", "l">>
FnSegment == <<"n", "e", "t", "w", "o", "r", "k", "_", "s", "e", "g", "m", "e", "n", "t", ".", "y", "a", "m", "l">>
FnNetComponent == <<"n", "e", "t", "w", "o", "r", "k", "_", "c", "o", "m", "p", "o", "n", "e", "n", "t", ".", "y", "a", "m", "l">>
FnNetworksPrefix == <<"n", "e", "t", "w", "o", "r", "k", "s", "_">>
FnNetworksMisc == <<"n", "e", "t", "w", "o", "r", "k", "s", "_", "m", "i", "s", "c", ".", "y", "a", "m", "l">>
FnKb == <<"k", "b", ".", "y", "a", "m", "l">>
FnCompute == <<"c", "o", "m", "p", "u", "t", "e", "_", "s", "e", "r", "v", "i", "c", "e", ".", "y", "a", "m", "l">>
FnCluster == <<"c", "l", "u", "s", "t", "e", "r", ".", "y", "a", "m", "l">>
FnMonitoring == <<"m", "o", "n", "i", "t", "o", "r", "i", "n", "g", ".", "y", "a", "m", "l">>
FnBackup == <<"b", "a", "c", "k", "u", "p", ".", "y", "a", "m", "l">>
FnRootSeaf2 == <<"_", "r", "o", "o", "t", ".", "y", "a", "m", "l">>
YamlSuffix == <<".", "y", "a", "m", "l">>

EndsWith(s, p) == Len(s) >= Len(p) /\ Slice(s, Len(s) - Len(p) + 1, Len(s)) = p

\* A fragment with entities is [key |-> collection key, ents |-> dict]; the
\* manifest is [imports |-> names].  write_yaml(out_dir / name, {key: ents})
\* replaces the file; sanitize_for_yaml and the YAML dump and load change
\* nothing in the values the converters produce (no key starts with '_' in the
\* company-scoped converter, no string holds a line break after ws_clean).
write_yaml(dir, name, key, ents) == (name :> [key |-> key, ents |-> ents]) @@ dir

\* if d: write_yaml(...)
WriteIf(dir, name, key, ents) == IF ents # <<>> THEN write_yaml(dir, name, key, ents) ELSE dir

\* sorted(names) for a set of fragment names
RECURSIVE SortedNames(_)
SortedNames(S) ==
    IF S = {} THEN <<>>
    ELSE LET m == CHOOSE x \in S : \A y \in S : ~StrLess(y, x)
         IN  <<m>> \o SortedNames(S \ {m})

-----------------------------------------------------------------------------
(* _seaf2_xlsx_to_yaml.py: regions, availability zones, data centers, offices *)

\* loop state of one sheet: the dict built so far and the IDs seen
LoopInit == [d |-> <<>>, proc |-> {}]

Seaf2RegionRow(st, row, index) ==
    LET rid == id_clean(Get(row, "ID Regiona")) IN             \* 'ID Региона'
    IF Truthy(rid) /\ rid \notin st.proc
    THEN [proc |-> st.proc \cup {rid},
          d |-> DictSet(st.d, rid,
                  [description |-> ws_clean(Get(row, "Opisanie")),      \* 'Описание'
                   external_id |-> LastDotPart(rid),
                   title |-> ws_clean(Get(row, "Naimenovanie"))])]      \* 'Наименование'
    ELSE st

Seaf2AzRow(st, row, index) ==
    LET aid == id_clean(Get(row, "ID AZ")) IN
    IF Truthy(aid) /\ aid \notin st.proc
    THEN [proc |-> st.proc \cup {aid},
          d |-> DictSet(st.d, aid,
                  [description |-> ws_clean(Get(row, "Opisanie")),
                   external_id |-> LastDotPart(aid),
                   region |-> id_clean(Get(row, "Region")),             \* 'Регион'
                   title |-> ws_clean(Get(row, "Naimenovanie")),
                   vendor |-> ws_clean(Get(row, "Postavshchik"))])]     \* 'Поставщик'
    ELSE st

Seaf2DcRow(st, row, index) ==
    LET did == id_clean(Get(row, "ID DC")) IN
    IF Truthy(did) /\ did \notin st.proc
    THEN [proc |-> st.proc \cup {did},
          d |-> DictSet(st.d, did,
                  [address |-> ws_clean(Get(row, "Adres")),             \* 'Адрес'
                   availabilityzone |-> id_clean(Get(row, "AZ")),
                   description |-> ws_clean(Get(row, "Opisanie")),
                   external_id |-> LastDotPart(did),
                   ownership |-> ws_clean(Get(row, "Forma vladeniya")), \* 'Форма владения'
                   rack_qty |-> ws_clean(Get(row, "Kol-vo stoek")),     \* 'Кол-во стоек'
                   tier |-> ws_clean(Get(row, "Tier")),
                   title |-> ws_clean(Get(row, "Naimenovanie")),
                   type |-> ws_clean(Get(row, "Tip")),                  \* 'Тип'
                   vendor |-> ws_clean(Get(row, "Postavshchik"))])]
    ELSE st

Seaf2OfficeRow(st, row, index) ==
    LET oid == id_clean(Get(row, "ID Ofisa")) IN                \* 'ID Офиса'
    IF Truthy(oid) /\ oid \notin st.proc
    THEN [proc |-> st.proc \cup {oid},
          d |-> DictSet(st.d, oid,
                  [address |-> ws_clean(Get(row, "Adres")),
                   description |-> ws_clean(Get(row, "Opisanie")),
                   external_id |-> LastDotPart(oid),
                   region |-> id_clean(Get(row, "Region")),
                   title |-> ws_clean(Get(row, "Naimenovanie"))])]
    ELSE st

\* the dict one sheet gives, empty when the workbook has no such sheet
SheetDict(xls, name, Body(_, _, _)) ==
    IF HasSheet(xls, name) THEN LoopRows(non_empty_rows(xls[name]), LoopInit, Body).d ELSE <<>>

\* convert_regions_az_dc_offices(xlsx_path, out_dir)
seaf2_convert_regions_az_dc_offices(xls, dir) ==
    LET reg == SheetDict(xls, SheetRegions, Seaf2RegionRow)
        azs == SheetDict(xls, SheetAZ, Seaf2AzRow)
        dcs == SheetDict(xls, SheetDC, Seaf2DcRow)
        off == SheetDict(xls, SheetOffices, Seaf2OfficeRow)
        d1 == WriteIf(dir, FnRegion, "seaf.company.ta.services.dc_regions", reg)
        d2 == WriteIf(d1, FnAz, "seaf.company.ta.services.dc_azs", azs)
        d3 == WriteIf(d2, FnDc, "seaf.company.ta.services.dcs", dcs)
    IN  WriteIf(d3, FnDcOffice, "seaf.company.ta.services.dc_offices", off)

-----------------------------------------------------------------------------
(* _seaf2_xlsx_to_yaml.py: segments, networks, network devices *)

AlnumChars == LowerAscii \cup UpperAscii \cup Digits

\* int(float(s)) for the numerals the model feeds it: digits, optionally
\* followed by '.' and digits (truncated); anything else raises ValueError,
\* which is the result NoneV here.  An int is kept without leading zeros.
ParseIntFloat(s) ==
    LET whole == TakeWhile(s, Digits)
        rest == Slice(s, Len(whole) + 1, Len(s))
        frac == IF rest # <<>> /\ Head(rest) = "." THEN Tail(rest) ELSE <<>>
        ok == /\ whole # <<>>
              /\ \/ rest = <<>>
                 \/ Head(rest) = "." /\ \A i \in 1..Len(frac) : frac[i] \in Digits
        sig == DropWhile(whole, {"0"})
    IN  IF ok THEN <<"int">> \o (IF sig = <<>> THEN <<"0">> ELSE sig) ELSE NoneV

\* float(s) is infinite: int(float(s)) raises OverflowError, which the
\* `except ValueError` of line 220 does not catch
FloatIsInfinite(s) ==
    Lower(Strip(s)) \in {<<"i", "n", "f">>, <<"+", "i", "n", "f">>, <<"-", "i", "n", "f">>, <<"i", "n", "f", "i", "n", "i", "t", "y">>, <<"+", "i", "n", "f", "i", "n", "i", "t", "y">>, <<"-", "i", "n", "f", "i", "n", "i", "t", "y">>}

Seaf2SegmentRow(st, row, index) ==
    LET sid == id_clean(Get(row, "ID setevye segmenta/zony"))   \* 'ID сетевые сегмента/зоны'
        locs == parse_locations(Get(row, "Raspolozhenie"))      \* 'Расположение'
    IN  IF Truthy(sid) /\ sid \notin st.proc
        THEN [proc |-> st.proc \cup {sid},
              d |-> DictSet(st.d, sid,
                      [title |-> ws_clean(Get(row, "Naimenovanie")),
                       description |-> ws_clean(Get(row, "Opisanie")),
                       sber |-> [location |-> IF locs # <<>> THEN locs[1] ELSE NoneV,
                                 zone |-> ws_clean(Get(row, "Zona"))]])]   \* 'Зона'
        ELSE st

\* the entity of one accepted row of sheet 'Сети'
Seaf2NetworkEntry(row) ==
    LET ntype == ws_clean(Get(row, "Tip seti"))                 \* 'Тип сети'
        base == [title |-> ws_clean(Get(row, "Naimenovanie")),
                 description |-> ws_clean(Get(row, "Opisanie")),
                 type |-> ntype,
                 location |-> parse_locations(Get(row, "Raspolozhenie")),
                 segment |-> parse_multiline_ids(
                                PyOr(Get(row, "Setevoj segment/zona(ID)"),      \* 'Сетевой сегмент/зона(ID)'
                                     Get(row, "Setevoj segment/zona")))]        \* 'Сетевой сегмент/зона'
        vlan == ws_clean(Get(row, "VLAN"))
        vnum == IF Truthy(vlan) THEN ParseIntFloat(vlan) ELSE NoneV
        lan == IF ntype = <<"L", "A", "N">>
               THEN (IF vnum # NoneV THEN [vlan |-> vnum] ELSE <<>>)
                    @@ [ipnetwork |-> ws_clean(Get(row, "Adres seti")),         \* 'Адрес сети'
                        lan_type |-> ws_clean(PyOr(Get(row, "Tip seti (provodnaya, besprovodnaya)"),
                                                   Get(row, "Tip LAN")))]       \* 'Тип LAN'
               ELSE IF ntype = <<"W", "A", "N">>
               THEN [wan_ip |-> ws_clean(Get(row, "WAN Adres"))]                \* 'WAN Адрес'
               ELSE <<>>
        prov == ws_clean(Get(row, "Provajder"))                                 \* 'Провайдер'
        vrf == ws_clean(PyOr(Get(row, "VRF  "), ws_clean(Get(row, "VRF"))))
    IN  base @@ lan
             @@ (IF Truthy(prov) THEN [provider |-> prov] ELSE <<>>)
             @@ (IF Truthy(vrf) THEN [VRF |-> vrf] ELSE <<>>)

Seaf2NetworkRow(st, row, index) ==
    LET nid == id_clean(Get(row, "ID Network")) IN
    IF Truthy(nid) /\ nid \notin st.proc
    THEN [proc |-> st.proc \cup {nid}, d |-> DictSet(st.d, nid, Seaf2NetworkEntry(row))]
    ELSE st

\* re.sub(r'[^A-Za-z0-9]+', '_', s)
RECURSIVE SubNonAlnumRuns(_)
SubNonAlnumRuns(s) ==
    IF s = <<>> THEN <<>>
    ELSE IF Head(s) \notin AlnumChars
         THEN <<"_">> \o SubNonAlnumRuns(DropWhile(s, {c \in SeqToSet(s) : c \notin AlnumChars}))
         ELSE <<Head(s)>> \o SubNonAlnumRuns(Tail(s))

\* str.strip('_')
StripUnderscores(s) == RStripChars(DropWhile(s, {"_"}), {"_"})

\* the shard token of one location (lines 237-240)
Seaf2LocToken(prefix, loc) ==
    LET plain == StripUnderscores(SubNonAlnumRuns(loc))
        dflt == IF plain = <<>> THEN <<"l", "o", "c">> ELSE plain
        dcp == prefix \o <<".", "d", "c", ".">>
        dcm == {i \in Occurrences(loc, dcp) : i + Len(dcp) <= Len(loc) /\ loc[i + Len(dcp)] \in Digits}
        ofp == prefix \o <<".", "o", "f", "f", "i", "c", "e", ".">>
        ofm == {i \in Occurrences(loc, ofp) : i + Len(ofp) <= Len(loc)}
    IN  IF prefix = <<>> THEN dflt
        ELSE IF dcm # {}
        THEN <<"d", "c">> \o TakeWhile(Slice(loc, Min(dcm) + Len(dcp), Len(loc)), Digits)
        ELSE IF ofm # {}
        THEN <<"o", "f", "f", "i", "c", "e", "_">> \o Slice(loc, Min(ofm) + Len(ofp), Len(loc))
        ELSE dflt

\* per_loc and misc of lines 232-241: a dict token -> dict of networks, the
\* misc bucket under token <<>> is kept apart
Seaf2Shards(nets) ==
    LET first == nets[1].id
        prefix == PrefixOf(first, <<>>)
        AddLocs(acc, nid, entry, locs) ==
            LET G[j \in 0..Len(locs)] ==
                    IF j = 0 THEN acc
                    ELSE LET t == Seaf2LocToken(prefix, locs[j])
                             cur == IF t \in DictIds(G[j - 1]) THEN DictVal(G[j - 1], t) ELSE <<>>
                         IN  DictSet(G[j - 1], t, DictSet(cur, nid, entry))
            IN  G[Len(locs)]
        F[i \in 0..Len(nets)] ==
            IF i = 0 THEN [per_loc |-> <<>>, misc |-> <<>>]
            ELSE LET locs == nets[i].e.location IN
                 IF locs = <<>>
                 THEN [F[i - 1] EXCEPT !.misc = DictSet(@, nets[i].id, nets[i].e)]
                 ELSE [F[i - 1] EXCEPT !.per_loc = AddLocs(@, nets[i].id, nets[i].e, locs)]
    IN  F[Len(nets)]

NetworksFile(token) == FnNetworksPrefix \o token \o YamlSuffix

\* lines 230-243: one fragment per token, then the misc fragment
Seaf2WriteNetworks(dir, nets) ==
    IF nets = <<>> THEN dir
    ELSE LET sh == Seaf2Shards(nets)
             W[i \in 0..Len(sh.per_loc)] ==
                 IF i = 0 THEN dir
                 ELSE write_yaml(W[i - 1], NetworksFile(sh.per_loc[i].id),
                                 "seaf.company.ta.services.networks", sh.per_loc[i].e)
         IN  WriteIf(W[Len(sh.per_loc)], FnNetworksMisc, "seaf.company.ta.services.networks", sh.misc)

\* the fields of a device row before fan-out (lines 252-255)
Seaf2DeviceObj(row, did) ==
    LET opt(k, col) == LET v == ws_clean(Get(row, col)) IN IF Truthy(v) THEN (k :> v) ELSE <<>>
    IN  [title |-> PyOr(ws_clean(Get(row, "Naimenovanie")), did),
         realization_type |-> ws_clean(Get(row, "Tip realizacii")),            \* 'Тип реализации'
         type |-> ws_clean(PyOr(Get(row, "Tip ustrojstva"), Get(row, "Tip"))), \* 'Тип устройства', 'Тип'
         network_connection |-> parse_multiline_ids(
                                  PyOr(Get(row, "Podklyuchennye seti (spisok)"),   \* 'Подключенные сети (список)'
                                       Get(row, "Podklyuchennye seti"))),          \* 'Подключенные сети'
         segment |-> id_clean(PyOr(Get(row, "Raspolozhenie (ID segmenta/zony)"),   \* 'Расположение (ID сегмента/зоны)'
                                   Get(row, "Setevoj segment/zona (ID)")))]        \* 'Сетевой сегмент/зона (ID)'
        @@ opt("model", "Model")            \* 'Модель'
        @@ opt("purpose", "Naznachenie")     \* 'Назначение'
        @@ opt("address", "IP adres")        \* 'IP адрес'
        @@ opt("description", "Opisanie")

\* f"{did}-{l.split('.')[-1]}"
FanOutId(did, l) == did \o <<"-">> \o LastDotPart(l)

\* lines 256-258: one entity per location when there are several
Seaf2FanOut(devs, did, obj, locs) ==
    IF Len(locs) > 1
    THEN LET F[j \in 0..Len(locs)] ==
                 IF j = 0 THEN devs
                 ELSE DictSet(F[j - 1], FanOutId(did, locs[j]), [location |-> locs[j]] @@ obj)
         IN  F[Len(locs)]
    ELSE DictSet(devs, did, [location |-> IF locs # <<>> THEN locs[1] ELSE NoneV] @@ obj)

Seaf2DeviceRow(st, row, index) ==
    LET did == id_clean(PyOr(Get(row, "ID Ustrojstva"), Get(row, "ID ??????????")))  \* 'ID Устройства'
        locs == parse_locations(Get(row, "Raspolozhenie"))
    IN  IF Truthy(did) /\ did \notin st.proc
        THEN [proc |-> st.proc \cup {did},
              d |-> Seaf2FanOut(st.d, did, Seaf2DeviceObj(row, did), locs)]
        ELSE st

\* next((s for s in xls.sheet_names if s in [...]), None); a workbook of the
\* model never holds both device sheets
Seaf2DeviceSheet(xls) ==
    IF HasSheet(xls, SheetDevices) THEN SheetDevices
    ELSE IF HasSheet(xls, SheetDevicesGarbled) THEN SheetDevicesGarbled
    ELSE "none"

\* convert_segments_nets_devices raises in its loop over sheet 'Сети': an
\* accepted row of a LAN network whose VLAN cell reads as an infinite float
Seaf2NetworksRaise(xls) ==
    /\ HasSheet(xls, SheetNetworks)
    /\ LET rows == non_empty_rows(xls[SheetNetworks]) IN
       \E i \in 1..Len(rows) :
          LET nid == id_clean(Get(rows[i].row, "ID Network"))
              vlan == ws_clean(Get(rows[i].row, "VLAN"))
          IN  /\ Truthy(nid)
              /\ \A j \in 1..(i - 1) : id_clean(Get(rows[j].row, "ID Network")) # nid
              /\ ws_clean(Get(rows[i].row, "Tip seti")) = <<"L", "A", "N">>
              /\ Truthy(vlan) /\ FloatIsInfinite(vlan)

\* convert_segments_nets_devices(xlsx_path, out_dir), when it does not raise
seaf2_convert_segments_nets_devices(xls, dir) ==
    LET segments == SheetDict(xls, SheetSegments, Seaf2SegmentRow)
        nets == SheetDict(xls, SheetNetworks, Seaf2NetworkRow)
        devs == SheetDict(xls, Seaf2DeviceSheet(xls), Seaf2DeviceRow)
        d1 == WriteIf(dir, FnSegment, "seaf.company.ta.services.network_segments", segments)
        d2 == Seaf2WriteNetworks(d1, nets)
    IN  WriteIf(d2, FnNetComponent, "seaf.company.ta.components.networks", devs)

-----------------------------------------------------------------------------
(* _seaf2_xlsx_to_yaml.py: knowledge-base services *)

Seaf2KbRow(st, row, index) ==
    LET sid == id_clean(Get(row, "ID KB servisa")) IN           \* 'ID КБ сервиса'
    IF Truthy(sid) /\ sid \notin st.proc
    THEN [proc |-> st.proc \cup {sid},
          d |-> DictSet(st.d, sid,
                  [title |-> PyOr(ws_clean(Get(row, "Nazvanie servisa")),       \* 'Название сервиса'
                                  ws_clean(Get(row, "Nazvanie"))),              \* 'Название'
                   description |-> ws_clean(Get(row, "Opisanie")),
                   status |-> ws_clean(Get(row, "Status")),                     \* 'Статус'
                   technology |-> ws_clean(Get(row, "Tehnologiya")),            \* 'Технология'
                   software_name |-> ws_clean(Get(row, "Nazvanie PO")),         \* 'Название ПО'
                   tag |-> ws_clean(Get(row, "Tag")),
                   network_connection |-> parse_multiline_ids(
                                            Get(row, "Podklyuchennye seti"))])]
    ELSE st

\* convert_kb_services(xlsx_path, out_dir)
seaf2_convert_kb_services(xls, dir) ==
    WriteIf(dir, FnKb, "seaf.company.ta.services.kbs", SheetDict(xls, SheetKB, Seaf2KbRow))

-----------------------------------------------------------------------------
(* _seaf2_xlsx_to_yaml.py: technical services *)

\* SPECIAL_ENTITY_MAP: 'Мониторинг', 'Логгирование' -> monitorings,
\* 'Резервное копирование', 'Бекапирование и восстановление данных' -> backups
SPECIAL_ENTITY_MAP ==
    <<
      [k |-> <<"U041C", "U043E", "U043D", "U0438", "U0442", "U043E", "U0440", "U0438", "U043D", "U0433">>,
         v |-> "monitorings"],
      [k |-> <<"U041B", "U043E", "U0433", "U0433", "U0438", "U0440", "U043E", "U0432", "U0430", "U043D", "U0438", "U0435">>,
         v |-> "monitorings"],
      [k |-> <<"U0420", "U0435", "U0437", "U0435", "U0440", "U0432", "U043D", "U043E", "U0435", " ", "U043A", "U043E", "U043F", "U0438", "U0440", "U043E", "U0432", "U0430", "U043D", "U0438", "U0435">>,
         v |-> "backups"],
      [k |-> <<"U0411", "U0435", "U043A", "U0430", "U043F", "U0438", "U0440", "U043E", "U0432", "U0430", "U043D", "U0438", "U0435", " ", "U0438", " ", "U0432", "U043E", "U0441", "U0441", "U0442", "U0430", "U043D", "U043E", "U0432", "U043B", "U0435", "U043D", "U0438", "U0435", " ", "U0434", "U0430", "U043D", "U043D", "U044B", "U0445">>,
         v |-> "backups"] >>

\* SVC_TYPE_MAP, the rename table of service types
SVC_TYPE_MAP ==
    <<
      [k |-> <<"E", "-", "m", "a", "i", "l">>,
         v |-> <<"U041A", "U043E", "U043C", "U043C", "U0443", "U043D", "U0438", "U043A", "U0430", "U0446", "U0438", "U0438", " ", "(", "U0410", "U0422", "U0421", ",", " ", "U041F", "U043E", "U0447", "U0442", "U0430", ",", " ", "U043C", "U0435", "U0441", "U0441", "U0435", "U043D", "U0434", "U0436", "U0435", "U0440", "U044B", ",", " ", "U0421", "U041C", "U0421", " ", "U0448", "U043B", "U044E", "U0437", "U044B", " ", "U0438", " ", "U0442", ".", "U0434", ".", ")">>],
      [k |-> <<"U0420", "U0435", "U043B", "U044F", "U0446", "U0438", "U043E", "U043D", "U043D", "U044B", "U0435", " ", "U0421", "U0423", "U0411", "U0414">>,
         v |-> <<"U0421", "U0423", "U0411", "U0414">>],
      [k |-> <<"U0421", "U0438", "U0441", "U0442", "U0435", "U043C", "U044B", " ", "U0443", "U043F", "U0440", "U0430", "U0432", "U043B", "U0435", "U043D", "U0438", "U044F", " ", "U0441", "U0435", "U0442", "U0435", "U0432", "U044B", "U043C", " ", "U0430", "U0434", "U0440", "U0435", "U0441", "U043D", "U044B", "U043C", " ", "U043F", "U0440", "U043E", "U0441", "U0442", "U0440", "U0430", "U043D", "U0441", "U0442", "U0432", "U043E", "U043C", " ", "(", "D", "H", "C", "P", ",", " ", "D", "N", "S", " ", "U0442", ".", "U0434", ".", ")">>,
         v |-> <<"U0423", "U043F", "U0440", "U0430", "U0432", "U043B", "U0435", "U043D", "U0438", "U0435", " ", "U0441", "U0435", "U0442", "U0435", "U0432", "U044B", "U043C", " ", "U0430", "U0434", "U0440", "U0435", "U0441", "U043D", "U044B", "U043C", " ", "U043F", "U0440", "U043E", "U0441", "U0442", "U0440", "U0430", "U043D", "U0441", "U0442", "U0432", "U043E", "U043C", " ", "(", "D", "H", "C", "P", ",", " ", "D", "N", "S", " ", "U0438", " ", "U0442", ".", "U0434", ".", ")">>],
      [k |-> <<"U0423", "U0434", "U0430", "U043B", "U0435", "U043D", "U043D", "U044B", "U0439", " ", "U0434", "U043E", "U0441", "U0442", "U0443", "U043F">>,
         v |-> <<"U0418", "U043D", "U0444", "U0440", "U0430", "U0441", "U0442", "U0440", "U0443", "U043A", "U0442", "U0443", "U0440", "U0430", " ", "U0443", "U0434", "U0430", "U043B", "U0435", "U043D", "U043D", "U043E", "U0433", "U043E", " ", "U0434", "U043E", "U0441", "U0442", "U0443", "U043F", "U0430">>],
      [k |-> <<"U0424", "U0430", "U0439", "U043B", "U043E", "U0432", "U043E", "U0435", " ", "U0445", "U0440", "U0430", "U043D", "U0438", "U043B", "U0438", "U0449", "U0435">>,
         v |-> <<"U0424", "U0430", "U0439", "U043B", "U043E", "U0432", "U044B", "U0439", " ", "U0440", "U0435", "U0441", "U0443", "U0440", "U0441", " ", "(", "F", "T", "P", ",", " ", "N", "F", "S", ",", " ", "S", "M", "B", ",", " ", "S", "3", " ", "U0438", " ", "U0442", ".", "U0434", ".", ")">>],
      [k |-> <<"U0423", "U043F", "U0440", "U0430", "U0432", "U043B", "U0435", "U043D", "U0438", "U0435", " ", "U043A", "U043E", "U043D", "U0444", "U0438", "U0433", "U0443", "U0440", "U0430", "U0446", "U0438", "U044F", "U043C", "U0438">>,
         v |-> <<"U0423", "U043F", "U0440", "U0430", "U0432", "U043B", "U0435", "U043D", "U0438", "U0435", " ", "U0438", " ", "U0430", "U0432", "U0442", "U043E", "U043C", "U0430", "U0442", "U0438", "U0437", "U0430", "U0446", "U0438", "U0435", "U0439", " ", "(", "A", "n", "s", "i", "b", "l", "e", ",", " ", "T", "e", "r", "r", "a", "f", "o", "r", "m", ",", " ", "J", "e", "n", "k", "i", "n", "s", " ", "U0438", " ", "U0442", ".", "U0434", ".", ")">>],
      [k |-> <<"U0412", "U0438", "U0440", "U0442", "U0443", "U0430", "U043B", "U0438", "U0437", "U0430", "U0446", "U0438", "U044F">>,
         v |-> <<"U0423", "U043F", "U0440", "U0430", "U0432", "U043B", "U0435", "U043D", "U0438", "U0435", " ", "U0418", "U0422", "-", "U0441", "U043B", "U0443", "U0436", "U0431", "U043E", "U0439", ",", " ", "U0418", "U0422", "-", "U0438", "U043D", "U0444", "U0440", "U0430", "U0441", "U0442", "U0440", "U0443", "U043A", "U0442", "U0443", "U0440", "U043E", "U0439", " ", "U0438", " ", "U0418", "U0422", "-", "U0430", "U043A", "U0442", "U0438", "U0432", "U0430", "U043C", "U0438", " ", "(", "C", "M", "D", "B", ",", " ", "I", "T", "S", "M", " ", "U0438", " ", "U0442", ".", "U0434", ".", ")">>],
      [k |-> <<"U0423", "U043F", "U0440", "U0430", "U0432", "U043B", "U0435", "U043D", "U0438", "U0435", " ", "U043E", "U0431", "U043B", "U0430", "U0447", "U043D", "U043E", "U0439", " ", "U0438", "U043D", "U0444", "U0440", "U0430", "U0441", "U0442", "U0440", "U0443", "U043A", "U0442", "U0443", "U0440", "U043E", "U0439">>,
         v |-> <<"U0423", "U043F", "U0440", "U0430", "U0432", "U043B", "U0435", "U043D", "U0438", "U0435", " ", "U0418", "U0422", "-", "U0441", "U043B", "U0443", "U0436", "U0431", "U043E", "U0439", ",", " ", "U0418", "U0422", "-", "U0438", "U043D", "U0444", "U0440", "U0430", "U0441", "U0442", "U0440", "U0443", "U043A", "U0442", "U0443", "U0440", "U043E", "U0439", " ", "U0438", " ", "U0418", "U0422", "-", "U0430", "U043A", "U0442", "U0438", "U0432", "U0430", "U043C", "U0438", " ", "(", "C", "M", "D", "B", ",", " ", "I", "T", "S", "M", " ", "U0438", " ", "U0442", ".", "U0434", ".", ")">>],
      [k |-> <<"U0418", "U043D", "U043E", "U0435">>,
         v |-> <<"U0421", "U0435", "U0440", "U0432", "U0435", "U0440", "U044B", " ", "U043F", "U0440", "U0438", "U043B", "U043E", "U0436", "U0435", "U043D", "U0438", "U0439", " ", "U0438", " ", "U0442", ".", "U0434", ".">>],
      [k |-> <<"U041C", "U043E", "U043D", "U0438", "U0442", "U043E", "U0440", "U0438", "U043D", "U0433">>,
         v |-> <<"U0421", "U0435", "U0440", "U0432", "U0435", "U0440", "U044B", " ", "U043F", "U0440", "U0438", "U043B", "U043E", "U0436", "U0435", "U043D", "U0438", "U0439", " ", "U0438", " ", "U0442", ".", "U0434", ".">>],
      [k |-> <<"U041B", "U043E", "U0433", "U0433", "U0438", "U0440", "U043E", "U0432", "U0430", "U043D", "U0438", "U0435">>,
         v |-> <<"U0421", "U0435", "U0440", "U0432", "U0435", "U0440", "U044B", " ", "U043F", "U0440", "U0438", "U043B", "U043E", "U0436", "U0435", "U043D", "U0438", "U0439", " ", "U0438", " ", "U0442", ".", "U0434", ".">>] >>

\* the list `allowed` of normalize_svc_type
AllowedSvcTypes ==
    <<
      <<"U0423", "U043F", "U0440", "U0430", "U0432", "U043B", "U0435", "U043D", "U0438", "U0435", " ", "U0418", "U0422", "-", "U0441", "U043B", "U0443", "U0436", "U0431", "U043E", "U0439", ",", " ", "U0418", "U0422", "-", "U0438", "U043D", "U0444", "U0440", "U0430", "U0441", "U0442", "U0440", "U0443", "U043A", "U0442", "U0443", "U0440", "U043E", "U0439", " ", "U0438", " ", "U0418", "U0422", "-", "U0430", "U043A", "U0442", "U0438", "U0432", "U0430", "U043C", "U0438", " ", "(", "C", "M", "D", "B", ",", " ", "I", "T", "S", "M", " ", "U0438", " ", "U0442", ".", "U0434", ".", ")">>,
      <<"U0423", "U043F", "U0440", "U0430", "U0432", "U043B", "U0435", "U043D", "U0438", "U0435", " ", "U0438", " ", "U0430", "U0432", "U0442", "U043E", "U043C", "U0430", "U0442", "U0438", "U0437", "U0430", "U0446", "U0438", "U0435", "U0439", " ", "(", "A", "n", "s", "i", "b", "l", "e", ",", " ", "T", "e", "r", "r", "a", "f", "o", "r", "m", ",", " ", "J", "e", "n", "k", "i", "n", "s", " ", "U0438", " ", "U0442", ".", "U0434", ".", ")">>,
      <<"U0423", "U043F", "U0440", "U0430", "U0432", "U043B", "U0435", "U043D", "U0438", "U0435", " ", "U0440", "U0430", "U0437", "U0440", "U0430", "U0431", "U043E", "U0442", "U043A", "U043E", "U0439", " ", "U0438", " ", "U0445", "U0440", "U0430", "U043D", "U0435", "U043D", "U0438", "U044F", " ", "U043A", "U043E", "U0434", "U0430", " ", "(", "G", "i", "t", "l", "a", "b", ",", " ", "J", "i", "r", "a", " ", "U0438", " ", "U0442", ".", "U0434", ".", ")">>,
      <<"U0423", "U043F", "U0440", "U0430", "U0432", "U043B", "U0435", "U043D", "U0438", "U0435", " ", "U0441", "U0435", "U0442", "U0435", "U0432", "U044B", "U043C", " ", "U0430", "U0434", "U0440", "U0435", "U0441", "U043D", "U044B", "U043C", " ", "U043F", "U0440", "U043E", "U0441", "U0442", "U0440", "U0430", "U043D", "U0441", "U0442", "U0432", "U043E", "U043C", " ", "(", "D", "H", "C", "P", ",", " ", "D", "N", "S", " ", "U0438", " ", "U0442", ".", "U0434", ".", ")">>,
      <<"U0412", "U0438", "U0440", "U0442", "U0443", "U0430", "U043B", "U0438", "U0437", "U0430", "U0446", "U0438", "U044F", " ", "U0440", "U0430", "U0431", "U043E", "U0447", "U0438", "U0445", " ", "U043C", "U0435", "U0441", "U0442", " ", "(", "U0412", "U0410", "U0420", "U041C", " ", "U0438", " ", "V", "D", "I", ")">>,
      <<"U0428", "U043B", "U044E", "U0437", ",", " ", "U0411", "U0430", "U043B", "U0430", "U043D", "U0441", "U0438", "U0440", "U043E", "U0432", "U0449", "U0438", "U043A", ",", " ", "U043F", "U0440", "U043E", "U043A", "U0441", "U0438">>,
      <<"U0421", "U0423", "U0411", "U0414">>,
      <<"U0420", "U0430", "U0441", "U043F", "U0440", "U0435", "U0434", "U0435", "U043B", "U0435", "U043D", "U043D", "U044B", "U0439", " ", "U043A", "U044D", "U0448">>,
      <<"U0418", "U043D", "U0442", "U0435", "U0433", "U0440", "U0430", "U0446", "U0438", "U043E", "U043D", "U043D", "U0430", "U044F", " ", "U0448", "U0438", "U043D", "U0430", " ", " ", "(", "M", "Q", ",", " ", "E", "T", "L", ",", " ", "A", "P", "I", ")">>,
      <<"U0424", "U0430", "U0439", "U043B", "U043E", "U0432", "U044B", "U0439", " ", "U0440", "U0435", "U0441", "U0443", "U0440", "U0441", " ", "(", "F", "T", "P", ",", " ", "N", "F", "S", ",", " ", "S", "M", "B", ",", " ", "S", "3", " ", "U0438", " ", "U0442", ".", "U0434", ".", ")">>,
      <<"U0418", "U043D", "U0444", "U0440", "U0430", "U0441", "U0442", "U0440", "U0443", "U043A", "U0442", "U0443", "U0440", "U0430", " ", "U0443", "U0434", "U0430", "U043B", "U0435", "U043D", "U043D", "U043E", "U0433", "U043E", " ", "U0434", "U043E", "U0441", "U0442", "U0443", "U043F", "U0430">>,
      <<"U041A", "U043E", "U043C", "U043C", "U0443", "U043D", "U0438", "U043A", "U0430", "U0446", "U0438", "U0438", " ", "(", "U0410", "U0422", "U0421", ",", " ", "U041F", "U043E", "U0447", "U0442", "U0430", ",", " ", "U043C", "U0435", "U0441", "U0441", "U0435", "U043D", "U0434", "U0436", "U0435", "U0440", "U044B", ",", " ", "U0421", "U041C", "U0421", " ", "U0448", "U043B", "U044E", "U0437", "U044B", " ", "U0438", " ", "U0442", ".", "U0434", ".", ")">>,
      <<"U0421", "U0435", "U0440", "U0432", "U0435", "U0440", "U044B", " ", "U043F", "U0440", "U0438", "U043B", "U043E", "U0436", "U0435", "U043D", "U0438", "U0439", " ", "U0438", " ", "U0442", ".", "U0434", ".">> >>

\* 'Серверы приложений и т.д.'
DefaultSvcType == AllowedSvcTypes[13]

\* table.get(k, dflt) for a table given as a sequence of [k, v]
TableGet(table, k, dflt) ==
    IF \E i \in 1..Len(table) : table[i].k = k
    THEN table[CHOOSE i \in 1..Len(table) : table[i].k = k].v
    ELSE dflt
InTable(table, k) == \E i \in 1..Len(table) : table[i].k = k

\* str.maketrans('CAEOPXy', 'САЕОРХу'): Latin letters to their Cyrillic look-alikes
Translate(s) ==
    [i \in 1..Len(s) |->
        CASE s[i] = "C" -> "U0421" [] s[i] = "A" -> "U0410" [] s[i] = "E" -> "U0415"
          [] s[i] = "O" -> "U041E" [] s[i] = "P" -> "U0420" [] s[i] = "X" -> "U0425"
          [] s[i] = "y" -> "U0443" [] OTHER -> s[i]]

\* norm(s) of normalize_svc_type, and normalize_val of _seaf2_yaml_to_xlsx.py on a str
SvcNorm(s) == Strip(Translate(PyStr(s)))

\* normalize_svc_type(val)
normalize_svc_type(val) ==
    IF ~Truthy(val) THEN DefaultSvcType
    ELSE LET hits == {i \in 1..Len(AllowedSvcTypes) : SvcNorm(AllowedSvcTypes[i]) = SvcNorm(val)} IN
         IF hits # {} THEN AllowedSvcTypes[Min(hits)]
         ELSE TableGet(SVC_TYPE_MAP, val, DefaultSvcType)

\* res_val.lower() in ['active-active', 'active-passive', 'n+1', 'да']
ClusterReservations ==
    { <<"a", "c", "t", "i", "v", "e", "-", "a", "c", "t", "i", "v", "e">>, <<"a", "c", "t", "i", "v", "e", "-", "p", "a", "s", "s", "i", "v", "e">>, <<"n", "+", "1">>, <<"U0434", "U0430">> }
IsClusterReservation(res_val) == Truthy(res_val) /\ Lower(res_val) \in ClusterReservations

ClsCluster == <<"C", "l", "u", "s", "t", "e", "r">>
ClsCompute == <<"C", "o", "m", "p", "u", "t", "e", " ", "S", "e", "r", "v", "i", "c", "e">>

\* lines 296-299: the entity type of a row
Seaf2TechType(svc_raw, cls_val, res_val) ==
    IF InTable(SPECIAL_ENTITY_MAP, svc_raw) THEN TableGet(SPECIAL_ENTITY_MAP, svc_raw, "none")
    ELSE IF cls_val = ClsCluster \/ IsClusterReservation(res_val) THEN "clusters"
    ELSE IF cls_val = ClsCompute THEN "compute_services"
    ELSE "compute_services"

\* lines 290-295: the networks and the locations of a row
Seaf2TechNets(row) ==
    parse_multiline_ids(PyOr(Get(row, "Podklyuchen k seti"),      \* 'Подключен к сети'
                             Get(row, "Podklyuchen k  seti")))    \* 'Подключен к  сети'

RECURSIVE DeriveAll(_)
DeriveAll(nets) ==
    IF nets = <<>> THEN <<>>
    ELSE LET l == derive_location_from_network(Head(nets)) IN
         IF Truthy(l) THEN <<l>> \o DeriveAll(Tail(nets)) ELSE DeriveAll(Tail(nets))

Seaf2TechLocs(row) ==
    LET locs == parse_locations(Get(row, "COD"))                  \* 'ЦОД'
        all == IF locs = <<>> THEN DeriveAll(Seaf2TechNets(row)) ELSE locs
    IN  SortedNames(SeqToSet(all))

\* lines 300-304: the entity of a row
Seaf2TechObj(row, etype) ==
    LET svc_raw == PyOr(ws_clean(Get(row, "Tip servisa")), ws_clean(Get(row, "Klass")))   \* 'Тип сервиса', 'Класс'
        res_val == ws_clean(Get(row, "Tip rezervirovaniya"))                               \* 'Тип резервирования'
    IN  [title |-> ws_clean(Get(row, "Naimenovanie")),
         description |-> ws_clean(Get(row, "Opisanie")),
         location |-> Seaf2TechLocs(row),
         network_connection |-> Seaf2TechNets(row),
         availabilityzone |-> <<>>]
        @@ (IF etype \in {"compute_services", "clusters"}
            THEN [service_type |-> normalize_svc_type(svc_raw)] ELSE <<>>)
        @@ (IF etype = "clusters" THEN [reservation_type |-> res_val]
            ELSE IF etype = "monitorings"
            THEN [role |-> <<<<"M", "o", "n", "i", "t", "o", "r", "i", "n", "g">>>>, ha |-> (res_val # NoneV), monitored_services |-> <<>>]
            ELSE IF etype = "backups"
            THEN [path |-> <<"/">>, backed_up_services |-> <<>>]
            ELSE <<>>)

TechTypes == <<"compute_services", "clusters", "monitorings", "backups">>

\* out_data: one dict per entity type
TechInit == [d |-> [t \in SeqToSet(TechTypes) |-> <<>>], proc |-> {}]

Seaf2TechRow(st, row, index) ==
    LET oid == id_clean(Get(row, "Identifikator"))                \* 'Идентификатор'
        svc_raw == PyOr(ws_clean(Get(row, "Tip servisa")), ws_clean(Get(row, "Klass")))
        res_val == ws_clean(Get(row, "Tip rezervirovaniya"))
        cls_val == ws_clean(Get(row, "Klass"))
        etype == Seaf2TechType(svc_raw, cls_val, res_val)
    IN  IF ~Truthy(oid) \/ oid \in st.proc THEN st
        ELSE [proc |-> st.proc \cup {oid},
              d |-> [st.d EXCEPT ![etype] = DictSet(@, oid, Seaf2TechObj(row, etype))]]

TechFile(t) ==
    CASE t = "compute_services" -> FnCompute [] t = "clusters" -> FnCluster
      [] t = "monitorings" -> FnMonitoring [] t = "backups" -> FnBackup
TechKey(t) ==
    CASE t = "compute_services" -> "seaf.company.ta.services.compute_services"
      [] t = "clusters" -> "seaf.company.ta.services.clusters"
      [] t = "monitorings" -> "seaf.company.ta.services.monitorings"
      [] t = "backups" -> "seaf.company.ta.services.backups"

Seaf2TechSheet(xls) ==
    IF HasSheet(xls, SheetTech) THEN SheetTech
    ELSE IF HasSheet(xls, SheetTechEn) THEN SheetTechEn
    ELSE "none"

\* convert_tech_services(xlsx_path, out_dir)
seaf2_convert_tech_services(xls, dir) ==
    IF Seaf2TechSheet(xls) = "none" THEN dir
    ELSE LET out_data == LoopRows(non_empty_rows(xls[Seaf2TechSheet(xls)]), TechInit, Seaf2TechRow).d
             W[i \in 0..Len(TechTypes)] ==
                 IF i = 0 THEN dir
                 ELSE WriteIf(W[i - 1], TechFile(TechTypes[i]), TechKey(TechTypes[i]), out_data[TechTypes[i]])
         IN  W[Len(TechTypes)]

-----------------------------------------------------------------------------
(* _seaf2_xlsx_to_yaml.py: counting, the manifest, main() *)

\* counts[k] = counts.get(k, 0) + n
CountAdd(counts, k, n) == (k :> (Get0(counts, k) + n)) @@ counts

\* sheet_map of count_entities_in_xlsx
Seaf2SheetMap ==
    (SheetRegions :> "dc_regions") @@ (SheetAZ :> "dc_azs") @@ (SheetDC :> "dcs")
    @@ (SheetOffices :> "dc_offices") @@ (SheetSegments :> "network_segments")
    @@ (SheetNetworks :> "networks") @@ (SheetDevices :> "components.networks")
    @@ (SheetKB :> "kbs") @@ (SheetTech :> "tech_services") @@ (SheetTechEn :> "tech_services")

\* lines 139-143: the entity type count_entities_in_xlsx gives a row
Seaf2CountType(row) ==
    LET svc_raw == PyOr(ws_clean(Get(row, "Tip servisa")), ws_clean(Get(row, "Klass")))
        res_val == ws_clean(Get(row, "Tip rezervirovaniya"))
    IN  IF InTable(SPECIAL_ENTITY_MAP, svc_raw) THEN TableGet(SPECIAL_ENTITY_MAP, svc_raw, "none")
        ELSE IF svc_raw = ClsCluster \/ IsClusterReservation(res_val) THEN "clusters"
        ELSE "compute_services"

\* the sheets of a workbook in the order the model reads them
SheetOrder ==
    <<SheetRegions, SheetAZ, SheetDC, SheetOffices, SheetSegments, SheetNetworks,
      SheetDevices, SheetDevicesGarbled, SheetKB, SheetTech, SheetTechEn>>

Seaf2CountSheet(counts, name, sheet) ==
    LET df == non_empty_rows(sheet)
        T[i \in 0..Len(df)] == IF i = 0 THEN counts ELSE CountAdd(T[i - 1], Seaf2CountType(df[i].row), 1)
    IN  IF name \notin DOMAIN Seaf2SheetMap THEN counts
        ELSE IF Seaf2SheetMap[name] = "tech_services" THEN T[Len(df)]
        ELSE CountAdd(counts, Seaf2SheetMap[name], Len(df))

Seaf2CountBook(counts, book) ==
    LET S[i \in 0..Len(SheetOrder)] ==
            IF i = 0 THEN counts
            ELSE IF HasSheet(book.sheets, SheetOrder[i])
                 THEN Seaf2CountSheet(S[i - 1], SheetOrder[i], book.sheets[SheetOrder[i]])
                 ELSE S[i - 1]
    IN  IF book.exists THEN S[Len(SheetOrder)] ELSE counts

\* count_entities_in_xlsx(xlsx_files)
seaf2_count_entities_in_xlsx(files) ==
    LET F[i \in 0..Len(files)] == IF i = 0 THEN <<>> ELSE Seaf2CountBook(F[i - 1], files[i])
    IN  F[Len(files)]

\* write_root(out_dir): the fragments not starting with '_', sorted
seaf2_write_root(dir) ==
    LET imports == SortedNames({n \in DOMAIN dir : Head(n) # "_"})
    IN  IF imports # <<>> THEN (FnRootSeaf2 :> [imports |-> imports]) @@ dir ELSE dir

-----------------------------------------------------------------------------
(* Workbooks on disk: DataFrame(rows).to_excel(...) followed by pd.ExcelFile *)

\* the strings pandas reads back as an empty cell (its default na_values)
PandasNA ==
    { <<>>, <<"N", "/", "A">>, <<"N", "A">>, <<"N", "U", "L", "L">>, <<"N", "a", "N">>, <<"N", "o", "n", "e">>, <<"n", "/", "a">>, <<"n", "a", "n">>, <<"n", "u", "l", "l">>,
      <<"#", "N", "/", "A">>, <<"#", "N", "A">>, <<"<", "N", "A", ">">>, <<"-", "n", "a", "n">>, <<"-", "N", "a", "N">> }

\* one cell written and read back
ExcelCell(v) == IF v = NoneV \/ v = NaN \/ v \in PandasNA THEN NaN ELSE v

\* A sheet written from a list of dicts and parsed again: the columns are the
\* union of the keys, a missing key is an empty cell, and a column of ints with
\* an empty cell comes back as floats.
ReadBack(rows) ==
    LET cols == UNION {DOMAIN rows[i] : i \in 1..Len(rows)}
        cell(i, c) == ExcelCell(Get(rows[i], c))
        floats(c) == /\ \E i \in 1..Len(rows) : cell(i, c) = NaN
                     /\ \A i \in 1..Len(rows) : cell(i, c) = NaN \/ IsInt(cell(i, c))
    IN  [i \in 1..Len(rows) |->
            [c \in cols |-> IF IsInt(cell(i, c)) /\ floats(c)
                            THEN <<"float">> \o Tail(cell(i, c)) ELSE cell(i, c)]]

\* if rows: DataFrame(rows).to_excel(writer, sheet_name=sn)
AddSheet(sheets, sn, rows) == IF rows # <<>> THEN (sn :> ReadBack(rows)) @@ sheets ELSE sheets

-----------------------------------------------------------------------------
(* _seaf2_yaml_to_xlsx.py *)

\* read_yaml(ydir / fn).get(key, {})
ReadKey(dir, fn, key) ==
    IF fn \in DOMAIN dir /\ "ents" \in DOMAIN dir[fn] /\ dir[fn].key = key THEN dir[fn].ents ELSE <<>>

\* p.get(k) or [] for a list field
GetList(p, k) == IF k \in DOMAIN p THEN p[k] ELSE <<>>

\* format_list(items) for a list of str
format_list(items) ==
    IF items = <<>> THEN <<>> ELSE Join(Sorted(SelectTruthy(items)), <<",", " ">>)

\* normalize_val(val, default) with a default given
normalize_val(val, default) == IF ~Truthy(val) THEN default ELSE Strip(Translate(val))

\* [Row(i, p) for i, p in d.items()]
RowsOf(d, Row(_, _)) == [j \in 1..Len(d) |-> Row(d[j].id, d[j].e)]

Y2xRegionRow(i, p) ==
    [x \in {"ID Regiona", "Naimenovanie", "Opisanie"} |->
        CASE x = "ID Regiona" -> i [] x = "Naimenovanie" -> Get(p, "title")
          [] x = "Opisanie" -> Get(p, "description")]
Y2xAzRow(i, p) ==
    [x \in {"ID AZ", "Naimenovanie", "Opisanie", "Postavshchik", "Region"} |->
        CASE x = "ID AZ" -> i [] x = "Naimenovanie" -> Get(p, "title")
          [] x = "Opisanie" -> Get(p, "description") [] x = "Postavshchik" -> Get(p, "vendor")
          [] x = "Region" -> Get(p, "region")]
Y2xDcRow(i, p) ==
    [x \in {"ID DC", "Naimenovanie", "Opisanie", "Postavshchik", "Tier", "Tip", "Kol-vo stoek",
            "Adres", "Forma vladeniya", "AZ"} |->
        CASE x = "ID DC" -> i [] x = "Naimenovanie" -> Get(p, "title")
          [] x = "Opisanie" -> Get(p, "description") [] x = "Postavshchik" -> Get(p, "vendor")
          [] x = "Tier" -> Get(p, "tier") [] x = "Tip" -> Get(p, "type")
          [] x = "Kol-vo stoek" -> Get(p, "rack_qty") [] x = "Adres" -> Get(p, "address")
          [] x = "Forma vladeniya" -> Get(p, "ownership") [] x = "AZ" -> Get(p, "availabilityzone")]
Y2xOfficeRow(i, p) ==
    [x \in {"ID Ofisa", "Naimenovanie", "Opisanie", "Adres", "Region"} |->
        CASE x = "ID Ofisa" -> i [] x = "Naimenovanie" -> Get(p, "title")
          [] x = "Opisanie" -> Get(p, "description") [] x = "Adres" -> Get(p, "address")
          [] x = "Region" -> Get(p, "region")]

\* save_regions_az_dc_offices(ydir, writer)
save_regions_az_dc_offices(dir, sheets) ==
    LET s1 == AddSheet(sheets, SheetRegions,
                 RowsOf(ReadKey(dir, FnRegion, "seaf.company.ta.services.dc_regions"), Y2xRegionRow))
        s2 == AddSheet(s1, SheetAZ,
                 RowsOf(ReadKey(dir, FnAz, "seaf.company.ta.services.dc_azs"), Y2xAzRow))
        s3 == AddSheet(s2, SheetDC,
                 RowsOf(ReadKey(dir, FnDc, "seaf.company.ta.services.dcs"), Y2xDcRow))
    IN  AddSheet(s3, SheetOffices,
                 RowsOf(ReadKey(dir, FnDcOffice, "seaf.company.ta.services.dc_offices"), Y2xOfficeRow))

\* (p.get('sber') or {}).get(k)
SberGet(p, k) == IF "sber" \in DOMAIN p THEN Get(p["sber"], k) ELSE NoneV

Y2xSegmentRow(i, p) ==
    [x \in {"ID setevye segmenta/zony", "Naimenovanie", "Opisanie", "Raspolozhenie", "Zona"} |->
        CASE x = "ID setevye segmenta/zony" -> i [] x = "Naimenovanie" -> Get(p, "title")
          [] x = "Opisanie" -> Get(p, "description") [] x = "Raspolozhenie" -> SberGet(p, "location")
          [] x = "Zona" -> SberGet(p, "zone")]

Y2xNetworkRow(i, p) ==
    [x \in {"ID Network", "Naimenovanie", "Opisanie", "Tip seti", "VLAN", "VRF  ", "Provajder",
            "Tip seti (provodnaya, besprovodnaya)", "Adres seti", "WAN Adres", "Raspolozhenie",
            "Setevoj segment/zona(ID)"} |->
        CASE x = "ID Network" -> i [] x = "Naimenovanie" -> Get(p, "title")
          [] x = "Opisanie" -> Get(p, "description") [] x = "Tip seti" -> Get(p, "type")
          [] x = "VLAN" -> Get(p, "vlan") [] x = "VRF  " -> Get(p, "VRF")
          [] x = "Provajder" -> PyOr(Get(p, "provider"), SberGet(p, "provider"))
          [] x = "Tip seti (provodnaya, besprovodnaya)" -> Get(p, "lan_type")
          [] x = "Adres seti" -> Get(p, "ipnetwork") [] x = "WAN Adres" -> Get(p, "wan_ip")
          [] x = "Raspolozhenie" -> format_list(GetList(p, "location"))
          [] x = "Setevoj segment/zona(ID)" -> format_list(GetList(p, "segment"))]

\* the row of a device: the entity's location is not among its columns
Y2xDeviceRow(i, p) ==
    [x \in {"ID Ustrojstva", "Naimenovanie", "Tip realizacii", "Tip", "Model", "Naznachenie",
            "IP adres", "Opisanie", "Raspolozhenie (ID segmenta/zony)",
            "Podklyuchennye seti (spisok)"} |->
        CASE x = "ID Ustrojstva" -> i [] x = "Naimenovanie" -> Get(p, "title")
          [] x = "Tip realizacii" -> Get(p, "realization_type") [] x = "Tip" -> Get(p, "type")
          [] x = "Model" -> Get(p, "model") [] x = "Naznachenie" -> Get(p, "purpose")
          [] x = "IP adres" -> Get(p, "address") [] x = "Opisanie" -> Get(p, "description")
          [] x = "Raspolozhenie (ID segmenta/zony)" -> Get(p, "segment")
          [] x = "Podklyuchennye seti (spisok)" -> format_list(GetList(p, "network_connection"))]

\* for p in sorted(ydir.glob(pattern)): d.update(read_yaml(p).get(key, {}))
GlobUpdate(dir, names, key) ==
    LET files == SortedNames(names)
        F[i \in 0..Len(files)] ==
            IF i = 0 THEN <<>> ELSE DictUpdate(F[i - 1], ReadKey(dir, files[i], key))
    IN  F[Len(files)]

\* save_segments_nets_devices(ydir, writer)
save_segments_nets_devices(dir, sheets) ==
    LET segs == ReadKey(dir, FnSegment, "seaf.company.ta.services.network_segments")
        nets == GlobUpdate(dir, {n \in DOMAIN dir : /\ StartsWith(n, <<"n", "e", "t", "w", "o", "r", "k">>)
                                                   /\ EndsWith(n, YamlSuffix)
                                                   /\ n \notin {FnSegment, FnNetComponent}},
                           "seaf.company.ta.services.networks")
        devs == GlobUpdate(dir, {n \in DOMAIN dir : /\ StartsWith(n, <<"n", "e", "t", "w", "o", "r", "k", "_", "c", "o", "m", "p", "o", "n", "e", "n", "t">>)
                                                   /\ EndsWith(n, YamlSuffix)},
                           "seaf.company.ta.components.networks")
        s1 == AddSheet(sheets, SheetSegments, RowsOf(segs, Y2xSegmentRow))
        s2 == AddSheet(s1, SheetNetworks, RowsOf(nets, Y2xNetworkRow))
    IN  AddSheet(s2, SheetDevices, RowsOf(devs, Y2xDeviceRow))

\* the row of a knowledge-base service: the entity's title is not among its columns
Y2xKbRow(i, p) ==
    [x \in {"ID KB servisa", "Tag", "Opisanie", "Tehnologiya", "Nazvanie PO", "Status",
            "Podklyuchennye seti"} |->
        CASE x = "ID KB servisa" -> i [] x = "Tag" -> Get(p, "tag")
          [] x = "Opisanie" -> Get(p, "description") [] x = "Tehnologiya" -> Get(p, "technology")
          [] x = "Nazvanie PO" -> Get(p, "software_name") [] x = "Status" -> Get(p, "status")
          [] x = "Podklyuchennye seti" -> format_list(GetList(p, "network_connection"))]

\* save_kb_services(ydir, writer)
save_kb_services(dir, sheets) ==
    AddSheet(sheets, SheetKB, RowsOf(ReadKey(dir, FnKb, "seaf.company.ta.services.kbs"), Y2xKbRow))

\* kmap of save_tech_services: collection key -> class label
TechClassLabels ==
    ("seaf.company.ta.services.compute_services" :> <<"C", "o", "m", "p", "u", "t", "e", " ", "S", "e", "r", "v", "i", "c", "e">>)
    @@ ("seaf.company.ta.services.clusters" :> <<"C", "l", "u", "s", "t", "e", "r">>)
    @@ ("seaf.company.ta.services.monitorings" :> <<"M", "o", "n", "i", "t", "o", "r", "i", "n", "g">>)
    @@ ("seaf.company.ta.services.backups" :> <<"B", "a", "c", "k", "u", "p">>)
    @@ ("seaf.company.ta.services.softwares" :> <<"S", "o", "f", "t", "w", "a", "r", "e">>)
    @@ ("seaf.company.ta.services.storages" :> <<"S", "t", "o", "r", "a", "g", "e">>)
    @@ ("seaf.company.ta.services.cluster_virtualizations" :> <<"C", "l", "u", "s", "t", "e", "r", " ", "V", "i", "r", "t", "u", "a", "l", "i", "z", "a", "t", "i", "o", "n">>)
    @@ ("seaf.company.ta.services.k8s" :> <<"K", "8", "s", " ", "C", "l", "u", "s", "t", "e", "r">>)
    @@ ("seaf.company.ta.services.k8s_deployments" :> <<"D", "e", "p", "l", "o", "y", "m", "e", "n", "t">>)

\* 'compute' in rkey or 'cluster' in rkey; 'cluster' in rkey
KeyHasCompute(rkey) ==
    rkey = "seaf.company.ta.services.compute_services"
KeyHasCluster(rkey) ==
    rkey \in {"seaf.company.ta.services.clusters", "seaf.company.ta.services.cluster_virtualizations"}

\* lines 167-174: the row of one technical service
Y2xTechRow(rkey, i, d) ==
    LET nc == GetList(d, "network_connection")
        ls0 == GetList(d, "location")
        ls == IF ls0 = <<>> THEN DeriveAll(nc) ELSE ls0
    IN  [x \in {"Identifikator", "Naimenovanie", "Opisanie", "Podklyuchen k seti", "COD", "Klass"} |->
            CASE x = "Identifikator" -> i [] x = "Naimenovanie" -> Get(d, "title")
              [] x = "Opisanie" -> Get(d, "description")
              [] x = "Podklyuchen k seti" -> format_list(nc)
              [] x = "COD" -> format_list(SortedNames(SeqToSet(ls)))
              [] x = "Klass" -> TechClassLabels[rkey]]
        @@ (IF KeyHasCompute(rkey) \/ KeyHasCluster(rkey)
            THEN ("Tip servisa" :> normalize_val(Get(d, "service_type"), DefaultSvcType)) ELSE <<>>)
        @@ (IF KeyHasCluster(rkey) /\ "reservation_type" \in DOMAIN d
            THEN ("Tip rezervirovaniya" :> d["reservation_type"]) ELSE <<>>)

\* save_tech_services(ydir, writer)
save_tech_services(dir, sheets) ==
    LET files == SortedNames(DOMAIN dir)
        rowsOf(fn) == IF "key" \in DOMAIN dir[fn] /\ dir[fn].key \in DOMAIN TechClassLabels
                      THEN [j \in 1..Len(dir[fn].ents) |->
                               Y2xTechRow(dir[fn].key, dir[fn].ents[j].id, dir[fn].ents[j].e)]
                      ELSE <<>>
        F[i \in 0..Len(files)] == IF i = 0 THEN <<>> ELSE F[i - 1] \o rowsOf(files[i])
    IN  AddSheet(sheets, SheetTech, F[Len(files)])

\* cfg['xlsx_files'] of the document-to-workbook run
Y2xFiles ==
    << <<"r", "e", "g", "i", "o", "n", "s", "_", "a", "z", "_", "d", "c", "_", "o", "f", "f", "i", "c", "e", "s", ".", "x", "l", "s", "x">>, <<"s", "e", "g", "m", "e", "n", "t", "s", "_", "n", "e", "t", "s", "_", "n", "e", "t", "d", "e", "v", "i", "c", "e", "s", ".", "x", "l", "s", "x">>,
       <<"k", "b", "_", "s", "e", "r", "v", "i", "c", "e", "s", ".", "x", "l", "s", "x">>, <<"t", "e", "c", "h", "_", "s", "e", "r", "v", "i", "c", "e", "s", ".", "x", "l", "s", "x">> >>

Contains(s, p) == Occurrences(s, p) # {}

\* lines 191-195: the savers a file name selects, and the sheet of an empty book
Y2xIfRegions(dir, name, sheets) ==
    IF Contains(name, <<"r", "e", "g">>) THEN save_regions_az_dc_offices(dir, sheets) ELSE sheets
Y2xIfSegments(dir, name, sheets) ==
    IF Contains(name, <<"s", "e", "g">>) THEN save_segments_nets_devices(dir, sheets) ELSE sheets
Y2xIfKb(dir, name, sheets) ==
    IF Contains(name, <<"k", "b">>) THEN save_kb_services(dir, sheets) ELSE sheets
Y2xIfTech(dir, name, sheets) ==
    IF Contains(name, <<"t", "e", "c", "h">>) \/ name = <<"s", "e", "r", "v", "i", "c", "e", "s", ".", "x", "l", "s", "x">>
    THEN save_tech_services(dir, sheets) ELSE sheets
Y2xIfEmpty(sheets) ==
    IF DOMAIN sheets = {}
    THEN ("Empty" :> <<("Info" :> <<"N", "o", " ", "d", "a", "t", "a">>) @@ ("Unnamed: 0" :> <<"int", "0">>)>>)
    ELSE sheets

\* lines 189-195: the workbook written under one file name
Y2xWorkbook(dir, fname) ==
    [exists |-> TRUE,
     sheets |-> Y2xIfEmpty(Y2xIfTech(dir, Lower(fname),
                    Y2xIfKb(dir, Lower(fname),
                       Y2xIfSegments(dir, Lower(fname),
                          Y2xIfRegions(dir, Lower(fname), <<>>)))))]

\* main() of _seaf2_yaml_to_xlsx.py: one workbook per configured name
seaf2_yaml_to_xlsx(dir) == [i \in 1..Len(Y2xFiles) |-> Y2xWorkbook(dir, Y2xFiles[i])]

-----------------------------------------------------------------------------
(* Input workbooks *)

\* the largest number of rows of the sheet an input workbook varies
MaxRows == 2

\* all sequences of at most n elements of S
RECURSIVE SeqsUpTo(_, _)
SeqsUpTo(S, n) ==
    IF n = 0 THEN {<<>>}
    ELSE LET shorter == SeqsUpTo(S, n - 1)
         IN  shorter \cup {Append(s, x) : s \in {t \in shorter : Len(t) = n - 1}, x \in S}

\* a workbook read by pd.ExcelFile: every sheet as pandas parses it
Book(sheets) == [exists |-> TRUE, sheets |-> [n \in DOMAIN sheets |-> ReadBack(sheets[n])]]

\* a configured workbook that is not on disk
MissingBook == [exists |-> FALSE, sheets |-> <<>>]

Org1 == <<"o", "r", "g", ".", "d", "c", ".", "1">>
Org2 == <<"o", "r", "g", ".", "d", "c", ".", "2">>
NetA == <<"o", "r", "g", ".", "n", "e", "t", ".", "d", "c", "1", ".", "a">>
NetB == <<"o", "r", "g", ".", "n", "e", "t", ".", "d", "c", "2", ".", "b">>
SegX == <<"o", "r", "g", ".", "s", "e", "g", ".", "x">>

RegionRowIn(id, title) ==
    ("ID Regiona" :> id) @@ ("Naimenovanie" :> title) @@ ("Opisanie" :> NaN)
RegionRows ==
    { RegionRowIn(<<"o", "r", "g", ".", "r", "e", "g", "i", "o", "n", ".", "m", "s", "k">>, <<"M", "o", "s", "c", "o", "w">>), RegionRowIn(<<"o", "r", "g", ".", "r", "e", "g", "i", "o", "n", ".", "s", "p", "b">>, <<"P", "i", "t", "e", "r">>),
      RegionRowIn(<<"o", "r", "g", ".", "r", "e", "g", "i", "o", "n", ".", "m", "s", "k">>, <<"A", "g", "a", "i", "n">>), RegionRowIn(<<" ">>, <<"B", "l", "a", "n", "k">>),
      RegionRowIn(NaN, <<"N", "o", "I", "d">>),
      RegionRowIn(Org1, <<"C", "l", "a", "s", "h">>) }
AzRowIn ==
    ("ID AZ" :> <<"o", "r", "g", ".", "a", "z", ".", "1">>) @@ ("Naimenovanie" :> <<"Z", "o", "n", "e">>) @@ ("Opisanie" :> NaN)
    @@ ("Postavshchik" :> <<"V", "e", "n", "d", "o", "r">>) @@ ("Region" :> <<"o", "r", "g", ".", "r", "e", "g", "i", "o", "n", ".", "m", "s", "k">>)
DcRowIn ==
    ("ID DC" :> Org1) @@ ("Naimenovanie" :> <<"M", "a", "i", "n">>) @@ ("Opisanie" :> NaN)
    @@ ("Postavshchik" :> NaN) @@ ("Tier" :> <<"I", "I", "I">>) @@ ("Tip" :> NaN)
    @@ ("Kol-vo stoek" :> <<"int", "1", "2">>) @@ ("Adres" :> <<"L", "e", "n", "i", "n", "a", " ", "1">>)
    @@ ("Forma vladeniya" :> NaN) @@ ("AZ" :> <<"o", "r", "g", ".", "a", "z", ".", "1">>)
OfficeRowIn ==
    ("ID Ofisa" :> <<"o", "r", "g", ".", "o", "f", "f", "i", "c", "e", ".", "m", "s", "k">>) @@ ("Naimenovanie" :> <<"H", "Q">>) @@ ("Opisanie" :> NaN)
    @@ ("Adres" :> NaN) @@ ("Region" :> <<"o", "r", "g", ".", "r", "e", "g", "i", "o", "n", ".", "m", "s", "k">>)
RegionBook(rows) ==
    Book((SheetRegions :> rows) @@ (SheetAZ :> <<AzRowIn>>) @@ (SheetDC :> <<DcRowIn>>)
         @@ (SheetOffices :> <<OfficeRowIn>>))

SegmentRowIn(id, title, loc) ==
    ("ID setevye segmenta/zony" :> id) @@ ("Naimenovanie" :> title) @@ ("Opisanie" :> NaN)
    @@ ("Raspolozhenie" :> loc) @@ ("Zona" :> <<"D", "M", "Z">>)
SegmentRows ==
    { SegmentRowIn(SegX, <<"F", "r", "o", "n", "t">>, Org1), SegmentRowIn(<<"o", "r", "g", ".", "s", "e", "g", ".", "y">>, <<"B", "a", "c", "k">>, <<"o", "r", "g", ".", "d", "c", ".", "1", ",", " ", "o", "r", "g", ".", "d", "c", ".", "2">>),
      SegmentRowIn(SegX, <<"A", "g", "a", "i", "n">>, Org2), SegmentRowIn(NaN, <<"N", "o", "I", "d">>, NaN) }

NetworkRowIn(id, title, type, vlan, loc, prov) ==
    ("ID Network" :> id) @@ ("Naimenovanie" :> title) @@ ("Opisanie" :> NaN)
    @@ ("Tip seti" :> type) @@ ("VLAN" :> vlan) @@ ("Raspolozhenie" :> loc)
    @@ ("Setevoj segment/zona(ID)" :> SegX) @@ ("Adres seti" :> <<"1", "0", ".", "0", ".", "0", ".", "0", "/", "2", "4">>)
    @@ ("Provajder" :> prov)
NetworkRows ==
    { NetworkRowIn(NetA, <<"U", "s", "e", "r", "s">>, <<"L", "A", "N">>, <<"int", "1", "0">>, Org1, NaN),
      NetworkRowIn(NetB, <<"S", "e", "r", "v", "e", "r", "s">>, <<"L", "A", "N">>, NaN, <<"o", "r", "g", ".", "d", "c", ".", "2", ",", " ", "o", "r", "g", ".", "d", "c", ".", "1">>, NaN),
      NetworkRowIn(<<"o", "r", "g", ".", "n", "e", "t", ".", "w", "a", "n">>, <<"U", "p", "l", "i", "n", "k">>, <<"W", "A", "N">>, NaN, NaN, <<"i", "s", "p">>),
      NetworkRowIn(NetA, <<"A", "g", "a", "i", "n">>, <<"L", "A", "N">>, <<"int", "2", "0">>, <<"o", "r", "g", ".", "o", "f", "f", "i", "c", "e", ".", "m", "s", "k">>, NaN),
      NetworkRowIn(NaN, <<"N", "o", "I", "d">>, <<"L", "A", "N">>, NaN, NaN, NaN) }
NetworkBook(segs, nets) == Book((SheetSegments :> segs) @@ (SheetNetworks :> nets))

DeviceRowIn(id, loc, seg) ==
    ("ID Ustrojstva" :> id) @@ ("Naimenovanie" :> <<"S", "w", "i", "t", "c", "h">>) @@ ("Tip" :> <<"L", "3">>)
    @@ ("Raspolozhenie" :> loc) @@ ("Raspolozhenie (ID segmenta/zony)" :> seg)
    @@ ("Podklyuchennye seti (spisok)" :> NetA) @@ ("Model" :> NaN)
Dev17 == <<"o", "r", "g", ".", "n", "e", "t", "d", "e", "v", ".", "1", "7">>
Dev18 == <<"o", "r", "g", ".", "n", "e", "t", "d", "e", "v", ".", "1", "8">>
DeviceRows ==
    { DeviceRowIn(Dev17, <<"o", "r", "g", ".", "d", "c", ".", "1", ",", " ", "o", "r", "g", ".", "d", "c", ".", "2">>, SegX), DeviceRowIn(Dev17, NaN, SegX),
      DeviceRowIn(Dev18, Org1, SegX), DeviceRowIn(Dev18, <<"o", "r", "g", ".", "d", "c", ".", "1", ";", " ", "o", "r", "g", ".", "o", "f", "f", "i", "c", "e", ".", "1">>, NaN),
      DeviceRowIn(Dev18, <<"o", "r", "g", ".", "d", "c", ".", "1", ",", " ", "o", "r", "g", ".", "d", "c", ".", "1">>, SegX), DeviceRowIn(<<"o", "r", "g", ".", "n", "e", "t", "d", "e", "v", ".", "1", "7", "-", "1">>, NaN, SegX),
      DeviceRowIn(NaN, Org1, SegX) }
DeviceBook(rows) == Book(SheetDevices :> rows)

KbRowIn(id, title, nets) ==
    ("ID KB servisa" :> id) @@ ("Nazvanie servisa" :> title) @@ ("Opisanie" :> NaN)
    @@ ("Status" :> <<"a", "c", "t", "i", "v", "e">>) @@ ("Tehnologiya" :> NaN) @@ ("Nazvanie PO" :> NaN)
    @@ ("Tag" :> <<"f", "w">>) @@ ("Podklyuchennye seti" :> nets)
KbRows ==
    { KbRowIn(<<"o", "r", "g", ".", "k", "b", ".", "f", "w">>, <<"F", "i", "r", "e", "w", "a", "l", "l">>, NetA), KbRowIn(<<"o", "r", "g", ".", "k", "b", ".", "a", "v">>, NaN, <<"o", "r", "g", ".", "n", "e", "t", ".", "d", "c", "2", ".", "b", ",", " ", "o", "r", "g", ".", "n", "e", "t", ".", "d", "c", "1", ".", "a">>),
      KbRowIn(<<"o", "r", "g", ".", "k", "b", ".", "f", "w">>, <<"A", "g", "a", "i", "n">>, NetB), KbRowIn(NaN, <<"N", "o", "I", "d">>, NaN) }
KbBook(rows) == Book(SheetKB :> rows)

TechRowIn(id, svc, cls, res, nets, cod) ==
    ("Identifikator" :> id) @@ ("Naimenovanie" :> <<"S", "e", "r", "v", "i", "c", "e">>) @@ ("Opisanie" :> NaN)
    @@ ("Tip servisa" :> svc) @@ ("Klass" :> cls) @@ ("Tip rezervirovaniya" :> res)
    @@ ("Podklyuchen k seti" :> nets) @@ ("COD" :> cod)
SvcDb1 == <<"o", "r", "g", ".", "s", "v", "c", ".", "d", "b", "1">>
SvcApp == <<"o", "r", "g", ".", "s", "v", "c", ".", "a", "p", "p">>
LblMonitoring == <<"M", "o", "n", "i", "t", "o", "r", "i", "n", "g">>
TechRows ==
    { TechRowIn(SvcDb1, NaN, ClsCompute, NaN, NetA, NaN),
      TechRowIn(SvcDb1, NaN, ClsCompute, NaN, NetB, NaN),
      TechRowIn(SvcApp, NaN, ClsCompute, <<"a", "c", "t", "i", "v", "e", "-", "a", "c", "t", "i", "v", "e">>, NetA, NaN),
      TechRowIn(SvcApp, NaN, LblMonitoring, NaN, NetA, NaN),
      TechRowIn(SvcDb1, SPECIAL_ENTITY_MAP[1].k, NaN, NaN, NetA, NaN),
      TechRowIn(SvcApp, SPECIAL_ENTITY_MAP[3].k, NaN, NaN, NetB, Org2),
      TechRowIn(SvcDb1, ClsCluster, NaN, NaN, NetA, NaN),
      TechRowIn(SvcApp, NaN, ClsCluster, <<"N", "+", "1">>, <<"o", "r", "g", ".", "n", "e", "t", ".", "d", "c", "2", ".", "b", ",", " ", "o", "r", "g", ".", "n", "e", "t", ".", "d", "c", "1", ".", "a">>, <<"o", "r", "g", ".", "d", "c", ".", "2", ",", " ", "o", "r", "g", ".", "d", "c", ".", "1">>),
      TechRowIn(SvcApp, AllowedSvcTypes[7], ClsCompute, NaN, NetB, NaN),
      TechRowIn(NaN, NaN, ClsCompute, NaN, NetA, NaN) }
TechBook(rows) == Book(SheetTech :> rows)

\* the configurations of one run: one workbook with one sheet varied, a missing
\* workbook alone or before a workbook, and a project of four workbooks
Workbooks ==
    {RegionBook(r) : r \in SeqsUpTo(RegionRows, MaxRows)}
    \cup {NetworkBook(s, <<>>) : s \in SeqsUpTo(SegmentRows, MaxRows)}
    \cup {NetworkBook(<<>>, n) : n \in SeqsUpTo(NetworkRows, MaxRows)}
    \cup {DeviceBook(d) : d \in SeqsUpTo(DeviceRows, MaxRows)}
    \cup {KbBook(k) : k \in SeqsUpTo(KbRows, MaxRows)}
    \cup {TechBook(t) : t \in SeqsUpTo(TechRows, MaxRows)}
ProjectBooks ==
    << RegionBook(<<RegionRowIn(<<"o", "r", "g", ".", "r", "e", "g", "i", "o", "n", ".", "m", "s", "k">>, <<"M", "o", "s", "c", "o", "w">>)>>),
       NetworkBook(<<SegmentRowIn(SegX, <<"F", "r", "o", "n", "t">>, Org1)>>,
                   <<NetworkRowIn(NetA, <<"U", "s", "e", "r", "s">>, <<"L", "A", "N">>, <<"int", "1", "0">>, Org1, NaN)>>),
       KbBook(<<KbRowIn(<<"o", "r", "g", ".", "k", "b", ".", "f", "w">>, <<"F", "i", "r", "e", "w", "a", "l", "l">>, NetA)>>),
       TechBook(<<TechRowIn(SvcDb1, AllowedSvcTypes[7], ClsCompute, NaN, NetA, NaN)>>) >>
\* a project with resolvable and dangling references side by side
SegY == <<"o", "r", "g", ".", "s", "e", "g", ".", "y">>
AuditBooks ==
    << ProjectBooks[1], ProjectBooks[2],
       DeviceBook(<<DeviceRowIn(Dev18, Org1, SegX), DeviceRowIn(Dev17, NaN, SegY)>>),
       KbBook(<<KbRowIn(<<"o", "r", "g", ".", "k", "b", ".", "a", "v">>, NaN, <<"o", "r", "g", ".", "n", "e", "t", ".", "d", "c", "2", ".", "b", ",", " ", "o", "r", "g", ".", "n", "e", "t", ".", "d", "c", "1", ".", "a">>)>>) >>

\* a network of two segments, both in org.dc.1, that is itself in two locations
SplitBook ==
    NetworkBook(<<SegmentRowIn(SegX, <<"F", "r", "o", "n", "t">>, Org1), SegmentRowIn(SegY, <<"B", "a", "c", "k">>, Org1)>>,
                <<[NetworkRowIn(NetB, <<"S", "e", "r", "v", "e", "r", "s">>, <<"L", "A", "N">>, NaN, <<"o", "r", "g", ".", "d", "c", ".", "2", ",", " ", "o", "r", "g", ".", "d", "c", ".", "1">>, NaN)
                    EXCEPT !["Setevoj segment/zona(ID)"] = <<"o", "r", "g", ".", "s", "e", "g", ".", "x", ",", " ", "o", "r", "g", ".", "s", "e", "g", ".", "y">>]>>)

\* a network without a type next to one of a type that is neither LAN nor WAN
TypeBook ==
    NetworkBook(<<>>, <<NetworkRowIn(<<"o", "r", "g", ".", "n", "e", "t", ".", "p", "l", "a", "i", "n">>, <<"P", "l", "a", "i", "n">>, NaN, NaN, NaN, NaN),
                        NetworkRowIn(<<"o", "r", "g", ".", "n", "e", "t", ".", "v", "p", "n">>, <<"T", "u", "n", "n", "e", "l">>, <<"V", "P", "N">>, NaN, NaN, NaN)>>)

\* a workbook whose sheet 'Сети' holds a LAN network with the VLAN cell 'inf'
OverflowBook ==
    NetworkBook(<<SegmentRowIn(SegX, <<"F", "r", "o", "n", "t">>, Org1)>>,
                <<NetworkRowIn(NetA, <<"U", "s", "e", "r", "s">>, <<"L", "A", "N">>, <<"i", "n", "f">>, Org1, NaN)>>)

\* a network in the location 'misc' before a network without a location
MiscBook ==
    NetworkBook(<<>>, <<NetworkRowIn(NetA, <<"U", "s", "e", "r", "s">>, <<"L", "A", "N">>, NaN, <<"m", "i", "s", "c">>, NaN),
                        NetworkRowIn(<<"o", "r", "g", ".", "n", "e", "t", ".", "w", "a", "n">>, <<"U", "p", "l", "i", "n", "k">>, <<"W", "A", "N">>, NaN, NaN, <<"i", "s", "p">>)>>)

\* two workbooks of regions and two workbooks of KB services in one run
TwoRegionBooks ==
    << ProjectBooks[1], RegionBook(<<RegionRowIn(<<"o", "r", "g", ".", "r", "e", "g", "i", "o", "n", ".", "s", "p", "b">>, <<"P", "i", "t", "e", "r">>)>>) >>
TwoKbBooks == << ProjectBooks[3], AuditBooks[4] >>

\* two segments of one title in two locations, and a network of the first
\* segment in the location of the second
SameTitleBook ==
    NetworkBook(<<SegmentRowIn(SegX, <<"F", "r", "o", "n", "t">>, Org1), SegmentRowIn(SegY, <<"F", "r", "o", "n", "t">>, Org2)>>,
                <<NetworkRowIn(NetA, <<"U", "s", "e", "r", "s">>, <<"L", "A", "N">>, NaN, Org2, NaN)>>)

\* a network of one segment in two locations, the segment in the second
AutoBook ==
    NetworkBook(<<SegmentRowIn(SegX, <<"F", "r", "o", "n", "t">>, Org1)>>,
                <<NetworkRowIn(NetB, <<"S", "e", "r", "v", "e", "r", "s">>, <<"L", "A", "N">>, NaN, <<"o", "r", "g", ".", "d", "c", ".", "2", ",", " ", "o", "r", "g", ".", "d", "c", ".", "1">>, NaN)>>)

InputConfigs ==
    {<<w>> : w \in Workbooks}
    \cup {<<MissingBook>>, ProjectBooks, <<MissingBook>> \o ProjectBooks}
    \cup {AuditBooks, <<SplitBook>>, <<TypeBook>>, <<MiscBook>>, TwoRegionBooks, TwoKbBooks,
          <<SameTitleBook>>, <<AutoBook>>}
    \cup {<<OverflowBook>>, <<ProjectBooks[1], OverflowBook, ProjectBooks[3]>>,
          <<OverflowBook, ProjectBooks[3]>>}

\* key.replace('seaf.company.ta.services.', '').replace('seaf.company.ta.components.', 'components.')
KeyEName ==
    ("seaf.company.ta.services.dc_regions" :> "dc_regions")
    @@ ("seaf.company.ta.services.dc_azs" :> "dc_azs")
    @@ ("seaf.company.ta.services.dcs" :> "dcs")
    @@ ("seaf.company.ta.services.dc_offices" :> "dc_offices")
    @@ ("seaf.company.ta.services.network_segments" :> "network_segments")
    @@ ("seaf.company.ta.services.networks" :> "networks")
    @@ ("seaf.company.ta.components.networks" :> "components.networks")
    @@ ("seaf.company.ta.services.kbs" :> "kbs")
    @@ ("seaf.company.ta.services.compute_services" :> "compute_services")
    @@ ("seaf.company.ta.services.clusters" :> "clusters")
    @@ ("seaf.company.ta.services.monitorings" :> "monitorings")
    @@ ("seaf.company.ta.services.backups" :> "backups")

\* count_entities_in_yaml_dir(out_dir): the manifest holds a list and is not counted
seaf2_count_entities_in_yaml_dir(dir) ==
    LET files == SortedNames(DOMAIN dir)
        F[i \in 0..Len(files)] ==
            IF i = 0 THEN <<>>
            ELSE IF "key" \in DOMAIN dir[files[i]]
                 THEN CountAdd(F[i - 1], KeyEName[dir[files[i]].key], Len(dir[files[i]].ents))
                 ELSE F[i - 1]
    IN  F[Len(files)]

\* lines 336-339: the four conversions of one workbook, and whether any ran
Seaf2HasRegions(xls) == AnySheet(xls, {SheetRegions, SheetAZ, SheetDC, SheetOffices})
Seaf2HasNetworks(xls) == AnySheet(xls, {SheetSegments, SheetNetworks, SheetDevices})
Seaf2HasKb(xls) == HasSheet(xls, SheetKB)
Seaf2HasTech(xls) == AnySheet(xls, {SheetTech, SheetTechEn})
Seaf2IfRegions(xls, dir) ==
    IF Seaf2HasRegions(xls) THEN seaf2_convert_regions_az_dc_offices(xls, dir) ELSE dir
Seaf2IfNetworks(xls, dir) ==
    IF Seaf2HasNetworks(xls) THEN seaf2_convert_segments_nets_devices(xls, dir) ELSE dir
Seaf2IfKb(xls, dir) ==
    IF Seaf2HasKb(xls) THEN seaf2_convert_kb_services(xls, dir) ELSE dir
Seaf2IfTech(xls, dir) ==
    IF Seaf2HasTech(xls) THEN seaf2_convert_tech_services(xls, dir) ELSE dir
\* an exception of convert_segments_nets_devices leaves the try block of main():
\* nothing of that call is written, the conversions after it are skipped
Seaf2ConvertBook(xls, dir) ==
    IF Seaf2NetworksRaise(xls) THEN Seaf2IfRegions(xls, dir)
    ELSE Seaf2IfTech(xls, Seaf2IfKb(xls, Seaf2IfNetworks(xls, Seaf2IfRegions(xls, dir))))

\* `processed = True` follows each conversion that returned
Seaf2Processed(xls) ==
    \/ Seaf2HasRegions(xls)
    \/ /\ ~Seaf2NetworksRaise(xls)
       /\ Seaf2HasNetworks(xls) \/ Seaf2HasKb(xls) \/ Seaf2HasTech(xls)

-----------------------------------------------------------------------------
(* xlsx_to_yaml.py: regions, availability zones, data centers, offices *)

\* str(n) for a natural number
RECURSIVE IntToStr(_)
IntToStr(n) ==
    IF n < 10 THEN <<<<"0", "1", "2", "3", "4", "5", "6", "7", "8", "9">>[n + 1]>>
    ELSE IntToStr(n \div 10) \o IntToStr(n % 10)

\* the two row-level warnings, as printed to stderr; row is index + 2
WarnMissingId(file, sheet, index) ==
    [level |-> "WARN", msg |-> "missing ID", file |-> file, sheet |-> sheet, row |-> index + 2]
WarnDuplicateId(file, sheet, index, id) ==
    [level |-> "WARN", msg |-> "duplicate ID", file |-> file, sheet |-> sheet, row |-> index + 2,
     id |-> id]

\* loop state of one sheet: the dict built, the IDs seen, stderr so far
FlatInit(err) == [d |-> <<>>, proc |-> {}, err |-> err]

\* the three outcomes of a row: no ID, an ID seen before, an entity stored
FlatAccept(st, file, sheet, index, id, entity) ==
    IF ~Truthy(id) THEN [st EXCEPT !.err = Append(@, WarnMissingId(file, sheet, index))]
    ELSE IF id \in st.proc
    THEN [st EXCEPT !.err = Append(@, WarnDuplicateId(file, sheet, index, id))]
    ELSE [st EXCEPT !.proc = @ \cup {id}, !.d = DictSet(@, id, entity)]

\* safe_num(v) for a cell: an int, an integral float, a str of digits, or a str
\* of digits with a fraction of zeros; any other str of the model is no number
safe_num(v) ==
    IF v = NoneV \/ v = NaN THEN NoneV
    ELSE IF IsInt(v) THEN v
    ELSE IF IsFloat(v) THEN (IF FloatIsInfinite(Tail(v)) THEN v ELSE <<"int">> \o Tail(v))
    ELSE IF Strip(v) = <<>> THEN NoneV
    ELSE IF FloatIsInfinite(v) THEN <<"float">> \o Lower(Strip(v))     \* float('inf')
    ELSE IF \A i \in 1..Len(Strip(v)) : Strip(v)[i] \in Digits
    THEN ParseIntFloat(Strip(v))
    ELSE IF ParseIntFloat(Strip(v)) # NoneV /\ DropWhile(DropWhile(DropWhile(Strip(v), Digits), {"."}), {"0"}) = <<>>
    THEN <<"float">> \o Tail(ParseIntFloat(Strip(v)))
    ELSE NoneV

FlatRegionEntity(row, rid) ==
    [description |-> ws_clean(Get(row, "Opisanie")),
     external_id |-> LastDotPart(rid),
     title |-> ws_clean(Get(row, "Naimenovanie"))]
FlatAzEntity(row, aid) ==
    [description |-> ws_clean(Get(row, "Opisanie")),
     external_id |-> LastDotPart(aid),
     region |-> seaf1_id_clean(Get(row, "Region")),
     title |-> ws_clean(Get(row, "Naimenovanie")),
     vendor |-> ws_clean(Get(row, "Postavshchik"))]
FlatDcEntity(row, did) ==
    [address |-> ws_clean(Get(row, "Adres")),
     availabilityzone |-> seaf1_id_clean(Get(row, "AZ")),
     description |-> ws_clean(Get(row, "Opisanie")),
     external_id |-> LastDotPart(did),
     ownership |-> ws_clean(Get(row, "Forma vladeniya")),
     rack_qty |-> safe_num(Get(row, "Kol-vo stoek")),
     tier |-> ws_clean(Get(row, "Tier")),
     title |-> ws_clean(Get(row, "Naimenovanie")),
     type |-> ws_clean(Get(row, "Tip")),
     vendor |-> ws_clean(Get(row, "Postavshchik"))]
FlatOfficeEntity(row, oid) ==
    [address |-> ws_clean(Get(row, "Adres")),
     description |-> ws_clean(Get(row, "Opisanie")),
     external_id |-> LastDotPart(oid),
     region |-> seaf1_id_clean(Get(row, "Region")),
     title |-> ws_clean(Get(row, "Naimenovanie"))]

\* one sheet with an ID column and an entity per accepted row (lines 172-184 and alike)
FlatSheet(xls, file, sheet, idcol, Entity(_, _), err) ==
    IF HasSheet(xls, sheet)
    THEN LET rows == non_empty_rows(xls[sheet])
             F[i \in 0..Len(rows)] ==
                 IF i = 0 THEN FlatInit(err)
                 ELSE FlatAccept(F[i - 1], file, sheet, rows[i].index,
                                 seaf1_id_clean(Get(rows[i].row, idcol)),
                                 Entity(rows[i].row, seaf1_id_clean(Get(rows[i].row, idcol))))
         IN  F[Len(rows)]
    ELSE FlatInit(err)

\* Fragment names of the flat converter
FnOffice == <<"o", "f", "f", "i", "c", "e", ".", "y", "a", "m", "l">>
FnComponentsNetwork == <<"c", "o", "m", "p", "o", "n", "e", "n", "t", "s", "_", "n", "e", "t", "w", "o", "r", "k", ".", "y", "a", "m", "l">>
FnRootSeaf1 == <<"r", "o", "o", "t", ".", "y", "a", "m", "l">>

\* a converter's result: the directory and stderr
FlatOut(dir, err) == [dir |-> dir, err |-> err]

\* the sheets of convert_regions_az_dc_offices one after another; each takes
\* the result of the one before
FlatRegions(xls, file, o) ==
    LET st == FlatSheet(xls, file, SheetRegions, "ID Regiona", FlatRegionEntity, o.err)
    IN  FlatOut(WriteIf(o.dir, FnRegion, "seaf.ta.services.dc_region", st.d), st.err)
FlatAzs(xls, file, o) ==
    LET st == FlatSheet(xls, file, SheetAZ, "ID AZ", FlatAzEntity, o.err)
    IN  FlatOut(WriteIf(o.dir, FnAz, "seaf.ta.services.dc_az", st.d), st.err)
FlatDcs(xls, file, o) ==
    LET st == FlatSheet(xls, file, SheetDC, "ID DC", FlatDcEntity, o.err)
    IN  FlatOut(WriteIf(o.dir, FnDc, "seaf.ta.services.dc", st.d), st.err)
FlatOffices(xls, file, o) ==
    LET st == FlatSheet(xls, file, SheetOffices, "ID Ofisa", FlatOfficeEntity, o.err)
    IN  FlatOut(WriteIf(o.dir, FnOffice, "seaf.ta.services.office", st.d), st.err)

\* convert_regions_az_dc_offices(xlsx_path, out_dir)
convert_regions_az_dc_offices(xls, file, o) ==
    FlatOffices(xls, file, FlatDcs(xls, file, FlatAzs(xls, file, FlatRegions(xls, file, o))))

-----------------------------------------------------------------------------
(* xlsx_to_yaml.py: segments, networks, network devices *)

\* sid.split('.')[0] if '.' in sid else ''
CompanyPrefix(id) == PrefixOf(id, <<>>)

\* lines 308-310, 402-404: the postfix of a location
LocPostfix(prefix, loc) ==
    IF StartsWith(loc, prefix \o <<".", "d", "c", ".">>) THEN <<"d", "c">> \o LastDotPart(loc) ELSE LastDotPart(loc)

\* zone.lower().replace(' ', '_')
ZoneSlug(zone) == ReplaceChars(Lower(zone), {" "}, "_")

\* f"{company_prefix}.network_segment.{zone_slug}.{loc_postfix}"
AutoSegmentId(prefix, zone, loc) ==
    prefix \o <<".", "n", "e", "t", "w", "o", "r", "k", "_", "s", "e", "g", "m", "e", "n", "t", ".">> \o ZoneSlug(zone) \o <<".">> \o LocPostfix(prefix, loc)

\* lines 319-326: a segment created from the extra location of a row
ExtraSegment(title, zone, prefix, loc, index) ==
    [title |-> title \o <<"_">> \o LocPostfix(prefix, loc),
     description |-> <<"U0410", "U0432", "U0442", "U043E", "U043C", "U0430", "U0442", "U0438", "U0447", "U0435", "U0441", "U043A", "U0438", " ", "U0441", "U043E", "U0437", "U0434", "U0430", "U043D", "U043D", "U044B", "U0439", " ", "U0441", "U0435", "U0433", "U043C", "U0435", "U043D", "U0442", " ", "U043F", "U043E", " ", "U0448", "U0430", "U0431", "U043B", "U043E", "U043D", "U0443", " ", "U0438", "U0437", " ", "U0441", "U0442", "U0440", "U043E", "U043A", "U0438", " ">>
                     \o IntToStr(index + 2) \o <<" ", "U043B", "U0438", "U0441", "U0442", "U0430", " ", "'", "U0421", "U0435", "U0433", "U043C", "U0435", "U043D", "U0442", "U044B", "'">>,
     sber |-> [location |-> loc, zone |-> zone]]

\* lines 305-329: the segments of the locations after the first
ExtraSegments(st, sid, title, zone, locs, index) ==
    LET F[j \in 1..Len(locs)] ==
            IF j = 1 THEN st
            ELSE IF AutoSegmentId(CompanyPrefix(sid), zone, locs[j]) \in DictIds(F[j - 1].d) \cup F[j - 1].proc
                 THEN F[j - 1]
                 ELSE [F[j - 1] EXCEPT
                          !.d = DictSet(@, AutoSegmentId(CompanyPrefix(sid), zone, locs[j]),
                                        ExtraSegment(title, zone, CompanyPrefix(sid), locs[j], index)),
                          !.proc = @ \cup {AutoSegmentId(CompanyPrefix(sid), zone, locs[j])}]
    IN  IF Len(locs) > 1 /\ Truthy(title) /\ Truthy(zone) THEN F[Len(locs)] ELSE st

\* lines 289-303: the segment of an accepted row
FlatSegmentEntity(title, descr, zone, locs) ==
    [title |-> title, description |-> descr]
    @@ (IF locs = <<>>
        THEN (IF Truthy(zone) THEN [sber |-> [zone |-> zone]] ELSE <<>>)
        ELSE [sber |-> (IF Truthy(zone) THEN [location |-> locs[1], zone |-> zone]
                        ELSE [location |-> locs[1]])])

\* lines 280-329 for one row whose ID, title, zone and locations are given
FlatSegmentRow(st, file, row, index, sid, title, zone, locs) ==
    IF ~Truthy(sid) \/ sid \in st.proc
    THEN FlatAccept(st, file, SheetSegments, index, sid, <<>>)
    ELSE ExtraSegments(
             FlatAccept(st, file, SheetSegments, index, sid,
                        FlatSegmentEntity(title, ws_clean(Get(row, "Opisanie")), zone, locs)),
             sid, title, zone, locs, index)

\* lines 276-329
FlatSegments(xls, file, err) ==
    IF HasSheet(xls, SheetSegments)
    THEN LET rows == non_empty_rows(xls[SheetSegments])
             F[i \in 0..Len(rows)] ==
                 IF i = 0 THEN FlatInit(err)
                 ELSE FlatSegmentRow(F[i - 1], file, rows[i].row, rows[i].index,
                                     seaf1_id_clean(Get(rows[i].row, "ID setevye segmenta/zony")),
                                     ws_clean(Get(rows[i].row, "Naimenovanie")),
                                     ws_clean(Get(rows[i].row, "Zona")),
                                     parse_locations(Get(rows[i].row, "Raspolozhenie")))
         IN  F[Len(rows)]
    ELSE FlatInit(err)

\* k: v if v is truthy
Opt(k, v) == IF Truthy(v) THEN (k :> v) ELSE <<>>
\* k: l if the list l is not empty
OptList(k, l) == IF l # <<>> THEN (k :> l) ELSE <<>>

\* lines 353-356: the first of the two columns that is in the row and holds a value
FlatLanType(row) ==
    IF "Tip seti (provodnaya, besprovodnaya)" \in DOMAIN row
       /\ Truthy(ws_clean(row["Tip seti (provodnaya, besprovodnaya)"]))
    THEN ws_clean(row["Tip seti (provodnaya, besprovodnaya)"])
    ELSE IF "Tip LAN" \in DOMAIN row THEN ws_clean(row["Tip LAN"]) ELSE NoneV

\* lines 361-368
FlatSegmentRefs(row) ==
    IF "Setevoj segment/zona(ID)" \in DOMAIN row
       /\ parse_multiline_ids(row["Setevoj segment/zona(ID)"]) # <<>>
    THEN parse_multiline_ids(row["Setevoj segment/zona(ID)"])
    ELSE IF "Setevoj segment/zona" \in DOMAIN row
         THEN parse_multiline_ids(row["Setevoj segment/zona"])
         ELSE <<>>

\* lines 350-358: the keys that depend on the network type
FlatTypeKeys(row, ntype) ==
    IF ntype = <<"L", "A", "N">>
    THEN (IF safe_num(Get(row, "VLAN")) # NoneV THEN [vlan |-> safe_num(Get(row, "VLAN"))] ELSE <<>>)
         @@ Opt("ipnetwork", ws_clean(Get(row, "Adres seti")))
         @@ Opt("lan_type", FlatLanType(row))
    ELSE IF ntype = <<"W", "A", "N">> THEN Opt("wan_ip", ws_clean(Get(row, "WAN Adres")))
    ELSE <<>>

\* lines 344-372 without '_source_info', which write_yaml drops
FlatNetworkEntity(row, nid) ==
    [title |-> ws_clean(Get(row, "Naimenovanie")), description |-> ws_clean(Get(row, "Opisanie"))]
    @@ Opt("type", ws_clean(Get(row, "Tip seti")))
    @@ FlatTypeKeys(row, ws_clean(Get(row, "Tip seti")))
    @@ Opt("provider", ws_clean(Get(row, "Provajder")))
    @@ Opt("bandwidth", safe_num(Get(row, "Skorost")))                  \* 'Скорость'
    @@ OptList("segment", FlatSegmentRefs(row))
    @@ OptList("location", parse_locations(Get(row, "Raspolozhenie")))
    @@ Opt("VRF", PyOr(ws_clean(Get(row, "VRF  ")), ws_clean(Get(row, "VRF"))))

\* lines 332-373
FlatNetworks(xls, file, err) ==
    FlatSheet(xls, file, SheetNetworks, "ID Network", FlatNetworkEntity, err)

\* lines 419-426: a segment created for a location of a network
NetSegment(title, zone, prefix, loc) ==
    [title |-> title \o <<"_">> \o LocPostfix(prefix, loc),
     description |-> <<"U0410", "U0432", "U0442", "U043E", "U043C", "U0430", "U0442", "U0438", "U0447", "U0435", "U0441", "U043A", "U0438", " ", "U0441", "U043E", "U0437", "U0434", "U0430", "U043D", "U043D", "U044B", "U0439", " ", "U0441", "U0435", "U0433", "U043C", "U0435", "U043D", "U0442", " ", "U0434", "U043B", "U044F", " ", "U0440", "U0430", "U0441", "U043F", "U043E", "U043B", "U043E", "U0436", "U0435", "U043D", "U0438", "U044F", " ">> \o loc,
     sber |-> [location |-> loc, zone |-> zone]]

\* lines 393-397
ExistingLocations(segs, title) ==
    {SberGet(segs[i].e, "location") :
        i \in {j \in 1..Len(segs) : /\ Get(segs[j].e, "title") = title
                                    /\ Truthy(SberGet(segs[j].e, "location"))}}

\* lines 401-431 for one location; a is [segs, proc, target, existing]
AutoForLocation(a, new_seg_id, segment, loc) ==
    IF loc \in a.existing THEN a
    ELSE IF new_seg_id \in DictIds(a.segs) \cup a.proc
    THEN [a EXCEPT !.target = IF new_seg_id \in SeqToSet(@) THEN @ ELSE Append(@, new_seg_id),
                   !.existing = @ \cup {loc}]
    ELSE [a EXCEPT !.segs = DictSet(@, new_seg_id, segment),
                   !.target = Append(@, new_seg_id),
                   !.existing = @ \cup {loc},
                   !.proc = @ \cup {new_seg_id}]

\* lines 399-431: the loop over the locations of one network
AutoForLocations(segs, proc, nid, locs, target, title, zone) ==
    LET F[j \in 0..Len(locs)] ==
            IF j = 0
            THEN [segs |-> segs, proc |-> proc, target |-> target,
                  existing |-> ExistingLocations(segs, title)]
            ELSE AutoForLocation(F[j - 1], AutoSegmentId(CompanyPrefix(nid), zone, locs[j]),
                                 NetSegment(title, zone, CompanyPrefix(nid), locs[j]), locs[j])
    IN  F[Len(locs)]

\* lines 378-391: whether a network takes part, given its lists
AutoApplies(segs, locs, segids) ==
    /\ locs # <<>>
    /\ Len(segids) = 1
    /\ segids[1] \in DictIds(segs)
    /\ Truthy(Get(DictVal(segs, segids[1]), "title"))
    /\ Truthy(SberGet(DictVal(segs, segids[1]), "zone"))

\* lines 377-431 for one network; s is [segs, nets, proc]
AutoForNetwork(s, i, locs, segids) ==
    IF AutoApplies(s.segs, locs, segids)
    THEN LET a == AutoForLocations(s.segs, s.proc, s.nets[i].id, locs, segids,
                                   Get(DictVal(s.segs, segids[1]), "title"),
                                   SberGet(DictVal(s.segs, segids[1]), "zone"))
         IN  [segs |-> a.segs, proc |-> a.proc,
              nets |-> [s.nets EXCEPT ![i].e = ("segment" :> a.target) @@ @]]
    ELSE s

\* lines 376-431: segments created from the networks; processed_ids is the set
\* of the network loop
AutoCreateFromNetworks(segs, nets, proc) ==
    LET F[i \in 0..Len(nets)] ==
            IF i = 0 THEN [segs |-> segs, nets |-> nets, proc |-> proc]
            ELSE AutoForNetwork(F[i - 1], i, GetList(F[i - 1].nets[i].e, "location"),
                                GetList(F[i - 1].nets[i].e, "segment"))
    IN  F[Len(nets)]

\* lines 246-257: the shard token of one location
FlatLocToken(prefix, loc) ==
    IF prefix # <<>> /\ StartsWith(loc, prefix \o <<".", "o", "f", "f", "i", "c", "e", ".">>) /\ Len(loc) > Len(prefix) + 8
    THEN <<"o", "f", "f", "i", "c", "e", "_">> \o Slice(loc, Len(prefix) + 9, Len(loc))
    ELSE IF /\ prefix # <<>> /\ StartsWith(loc, prefix \o <<".", "d", "c", ".">>) /\ Len(loc) > Len(prefix) + 4
            /\ \A k \in (Len(prefix) + 5)..Len(loc) : loc[k] \in Digits
    THEN <<"d", "c">> \o Slice(loc, Len(prefix) + 5, Len(loc))
    ELSE IF StripUnderscores(SubNonAlnumRuns(loc)) = <<>> THEN <<"l", "o", "c">>
    ELSE StripUnderscores(SubNonAlnumRuns(loc))

\* lines 249-258: per_loc and misc
FlatShards(nets, prefix) ==
    LET AddLocs(acc, nid, entry, locs) ==
            LET G[j \in 0..Len(locs)] ==
                    IF j = 0 THEN acc
                    ELSE DictSet(G[j - 1], FlatLocToken(prefix, locs[j]),
                                 DictSet(IF FlatLocToken(prefix, locs[j]) \in DictIds(G[j - 1])
                                         THEN DictVal(G[j - 1], FlatLocToken(prefix, locs[j]))
                                         ELSE <<>>, nid, entry))
            IN  G[Len(locs)]
        F[i \in 0..Len(nets)] ==
            IF i = 0 THEN [per_loc |-> <<>>, misc |-> <<>>]
            ELSE IF GetList(nets[i].e, "location") = <<>>
                 THEN [F[i - 1] EXCEPT !.misc = DictSet(@, nets[i].id, nets[i].e)]
                 ELSE [F[i - 1] EXCEPT !.per_loc = AddLocs(@, nets[i].id, nets[i].e,
                                                           GetList(nets[i].e, "location"))]
    IN  F[Len(nets)]

WarnNoPrefix == [level |-> "WARN", msg |-> "no company prefix"]

\* write_networks_per_location(nets, out_dir, company_prefix)
write_networks_per_location(nets, o, prefix) ==
    LET sh == FlatShards(nets, prefix)
        W[i \in 0..Len(sh.per_loc)] ==
            IF i = 0 THEN o.dir
            ELSE write_yaml(W[i - 1], NetworksFile(sh.per_loc[i].id),
                            "seaf.ta.services.network", sh.per_loc[i].e)
    IN  FlatOut(WriteIf(W[Len(sh.per_loc)], FnNetworksMisc, "seaf.ta.services.network", sh.misc),
                IF prefix = <<>> THEN Append(o.err, WarnNoPrefix) ELSE o.err)

\* lines 459-461: the entity of a device row
FlatDeviceEntity(row, did) ==
    [title |-> ws_clean(Get(row, "Naimenovanie")),
     realization_type |-> ws_clean(Get(row, "Tip realizacii")),
     type |-> ws_clean(Get(row, "Tip")),
     model |-> ws_clean(Get(row, "Model")),
     purpose |-> ws_clean(Get(row, "Naznachenie")),
     address |-> seaf1_id_clean(Get(row, "IP adres")),
     description |-> ws_clean(Get(row, "Opisanie"))]
    @@ Opt("segment", seaf1_id_clean(Get(row, "Raspolozhenie (ID segmenta/zony)")))
    @@ OptList("network_connection", to_list(Get(row, "Podklyuchennye seti (spisok)")))

\* lines 435-444: the fragments of segments and networks
FlatWriteNetworks(o, segs, nets) ==
    IF nets = <<>> THEN FlatOut(WriteIf(o.dir, FnSegment, "seaf.ta.services.network_segment", segs), o.err)
    ELSE write_networks_per_location(
             nets, FlatOut(WriteIf(o.dir, FnSegment, "seaf.ta.services.network_segment", segs), o.err),
             CompanyPrefix(nets[1].id))

\* lines 446-464
FlatDevices(xls, file, o) ==
    LET st == FlatSheet(xls, file, SheetDevices, "ID Ustrojstva", FlatDeviceEntity, o.err)
    IN  FlatOut(WriteIf(o.dir, FnComponentsNetwork, "seaf.ta.components.network", st.d), st.err)

\* lines 276-444 once the segment loop and the network loop have run
FlatAfterLoops(o, segst, netst) ==
    LET a == AutoCreateFromNetworks(segst.d, netst.d, netst.proc)
    IN  FlatWriteNetworks(FlatOut(o.dir, netst.err), a.segs, a.nets)

FlatAfterSegments(xls, file, o, segst) ==
    FlatAfterLoops(o, segst, FlatNetworks(xls, file, segst.err))

\* convert_segments_nets_devices(xlsx_path, out_dir)
convert_segments_nets_devices(xls, file, o) ==
    FlatDevices(xls, file, FlatAfterSegments(xls, file, o, FlatSegments(xls, file, o.err)))

-----------------------------------------------------------------------------
(* xlsx_to_yaml.py: KB services, the manifest, validation *)

\* lines 486-495: the entity of a KB row
FlatKbEntity(row, svc_id) ==
    Opt("description", ws_clean(Get(row, "Opisanie")))
    @@ Opt("tag", ws_clean(Get(row, "Tag")))
    @@ Opt("title", PyOr(ws_clean(Get(row, "Nazvanie servisa")),
                         PyOr(ws_clean(Get(row, "Nazvanie")), ws_clean(Get(row, "Tehnologiya")))))
    @@ Opt("technology", ws_clean(Get(row, "Tehnologiya")))
    @@ Opt("software_name", ws_clean(Get(row, "Nazvanie PO")))
    @@ Opt("status", ws_clean(Get(row, "Status")))
    @@ OptList("network_connection", parse_multiline_ids(Get(row, "Podklyuchennye seti")))

\* lines 476-480: the ID of a KB row; rstrip runs only on a truthy ID
FlatKbId(v) == IF Truthy(seaf1_id_clean(v)) THEN RStripChars(seaf1_id_clean(v), {":", ";", ","}) ELSE NoneV

\* lines 475-496; a missing ID is tested before rstrip, a duplicate after it
FlatKbRow(st, file, index, row) ==
    IF ~Truthy(seaf1_id_clean(Get(row, "ID KB servisa")))
    THEN [st EXCEPT !.err = Append(@, WarnMissingId(file, SheetKB, index))]
    ELSE IF FlatKbId(Get(row, "ID KB servisa")) \in st.proc
    THEN [st EXCEPT !.err = Append(@, WarnDuplicateId(file, SheetKB, index,
                                                      FlatKbId(Get(row, "ID KB servisa"))))]
    ELSE [st EXCEPT !.proc = @ \cup {FlatKbId(Get(row, "ID KB servisa"))},
                    !.d = DictSet(@, FlatKbId(Get(row, "ID KB servisa")),
                                  FlatKbEntity(row, FlatKbId(Get(row, "ID KB servisa"))))]

FlatKbSheet(rows, file, err) ==
    LET F[i \in 0..Len(rows)] ==
            IF i = 0 THEN FlatInit(err) ELSE FlatKbRow(F[i - 1], file, rows[i].index, rows[i].row)
    IN  F[Len(rows)]

FlatKbWrite(o, st) == FlatOut(WriteIf(o.dir, FnKb, "seaf.ta.services.kb", st.d), st.err)

\* convert_kb_services(xlsx_path, out_dir)
convert_kb_services(xls, file, o) ==
    IF ~HasSheet(xls, SheetKB) THEN o
    ELSE FlatKbWrite(o, FlatKbSheet(non_empty_rows(xls[SheetKB]), file, o.err))

\* write_root(out_dir)
write_root(dir) ==
    LET imports == SortedNames({n \in DOMAIN dir : n # FnRootSeaf1})
    IN  IF imports # <<>> THEN (FnRootSeaf1 :> [imports |-> imports]) @@ dir ELSE dir

\* the messages one loop over a dict appends, in order
Collect(d, Msgs(_, _)) ==
    LET F[i \in 0..Len(d)] == IF i = 0 THEN <<>> ELSE F[i - 1] \o Msgs(d[i].id, d[i].e)
    IN  F[Len(d)]

\* the messages a loop over a list field appends
CollectList(l, Msgs(_)) ==
    LET F[i \in 0..Len(l)] == IF i = 0 THEN <<>> ELSE F[i - 1] \o Msgs(l[i])
    IN  F[Len(l)]

\* lines 527-529, 586-588: every networks_*.yaml fragment, merged in name order
FlatLoadNetworks(dir) ==
    GlobUpdate(dir, {n \in DOMAIN dir : StartsWith(n, FnNetworksPrefix) /\ EndsWith(n, YamlSuffix)},
               "seaf.ta.services.network")

\* a reference field that holds a missing ID
MissingRef(d, k, ids, Msg(_)) ==
    IF Truthy(Get(d, k)) /\ Get(d, k) \notin ids THEN <<Msg(Get(d, k))>> ELSE <<>>

\* lines 559-572: the locations of a network against those of its segments
LocationErrors(networks, segments) ==
    LET seg_locs(n) ==
            {SberGet(DictVal(segments, sid), "location") :
                sid \in {x \in SeqToSet(GetList(n, "segment")) :
                            /\ x \in DictIds(segments)
                            /\ Truthy(SberGet(DictVal(segments, x), "location"))}}
    IN  Collect(networks, LAMBDA i, n :
            CollectList(GetList(n, "location"), LAMBDA l :
                IF l \notin seg_locs(n)
                THEN <<<<"N", "e", "t", "w", "o", "r", "k", " ", "'">> \o i \o <<"'", " ", "i", "s", " ", "i", "n", " ", "l", "o", "c", "a", "t", "i", "o", "n", " ", "'">> \o l
                       \o <<"'", ",", " ", "b", "u", "t", " ", "n", "o", "n", "e", " ", "o", "f", " ", "i", "t", "s", " ", "a", "s", "s", "o", "c", "i", "a", "t", "e", "d", " ", "s", "e", "g", "m", "e", "n", "t", "s", " ", "e", "x", "i", "s", "t", " ", "i", "n", " ", "t", "h", "a", "t", " ", "l", "o", "c", "a", "t", "i", "o", "n", ".">>>>
                ELSE <<>>))

\* lines 536-548: the loops over AZs, DCs, offices, segments and networks
StructErrors(regions, azs, dcs, offices, segments, networks) ==
    Collect(azs, LAMBDA i, d : MissingRef(d, "region", DictIds(regions),
                LAMBDA r : <<"A", "Z", " ">> \o i \o <<" ", "r", "e", "f", "s", " ", "m", "i", "s", "s", "i", "n", "g", " ", "R", "e", "g", "i", "o", "n", " ">> \o r))
    \o Collect(dcs, LAMBDA i, d : MissingRef(d, "availabilityzone", DictIds(azs),
                LAMBDA az : <<"D", "C", " ">> \o i \o <<" ", "r", "e", "f", "s", " ", "m", "i", "s", "s", "i", "n", "g", " ", "A", "Z", " ">> \o az))
    \o Collect(offices, LAMBDA i, d : MissingRef(d, "region", DictIds(regions),
                LAMBDA r : <<"O", "f", "f", "i", "c", "e", " ">> \o i \o <<" ", "r", "e", "f", "s", " ", "m", "i", "s", "s", "i", "n", "g", " ", "R", "e", "g", "i", "o", "n", " ">> \o r))
    \o Collect(segments, LAMBDA i, sg :
                IF /\ Truthy(SberGet(sg, "location"))
                   /\ SberGet(sg, "location") \notin DictIds(dcs) \cup DictIds(offices)
                THEN <<<<"S", "e", "g", "m", "e", "n", "t", " ">> \o i \o <<" ", "h", "a", "s", " ", "u", "n", "k", "n", "o", "w", "n", " ", "l", "o", "c", "a", "t", "i", "o", "n", " ">> \o SberGet(sg, "location")>>
                ELSE <<>>)
    \o Collect(networks, LAMBDA i, n :
                CollectList(GetList(n, "segment"), LAMBDA sg :
                    IF sg \notin DictIds(segments)
                    THEN <<<<"N", "e", "t", "w", "o", "r", "k", " ">> \o i \o <<" ", "r", "e", "f", "s", " ", "m", "i", "s", "s", "i", "n", "g", " ", "S", "e", "g", "m", "e", "n", "t", " ">> \o sg>> ELSE <<>>)
                \o CollectList(GetList(n, "location"), LAMBDA l :
                    IF l \notin DictIds(dcs) \cup DictIds(offices)
                    THEN <<<<"N", "e", "t", "w", "o", "r", "k", " ">> \o i \o <<" ", "h", "a", "s", " ", "u", "n", "k", "n", "o", "w", "n", " ", "l", "o", "c", "a", "t", "i", "o", "n", " ">> \o l>> ELSE <<>>))

\* lines 553-556: the loop over devices
DeviceErrors(devices, segments, networks) ==
    Collect(devices, LAMBDA i, d :
                MissingRef(d, "segment", DictIds(segments),
                    LAMBDA sg : <<"D", "e", "v", "i", "c", "e", " ">> \o i \o <<" ", "r", "e", "f", "s", " ", "m", "i", "s", "s", "i", "n", "g", " ", "S", "e", "g", "m", "e", "n", "t", " ">> \o sg)
                \o CollectList(GetList(d, "network_connection"), LAMBDA n :
                    IF n \notin DictIds(networks)
                    THEN <<<<"D", "e", "v", "i", "c", "e", " ">> \o i \o <<" ", "r", "e", "f", "s", " ", "m", "i", "s", "s", "i", "n", "g", " ", "N", "e", "t", "w", "o", "r", "k", " ">> \o n>> ELSE <<>>))

\* lines 536-572 over the loaded collections
RefErrors(regions, azs, dcs, offices, segments, networks, devices) ==
    StructErrors(regions, azs, dcs, offices, segments, networks)
    \o DeviceErrors(devices, segments, networks)
    \o LocationErrors(networks, segments)

\* lines 549-552
RefWarnings(kb_services, networks) ==
    Collect(kb_services, LAMBDA i, svc :
        CollectList(GetList(svc, "network_connection"), LAMBDA net :
            IF net \notin DictIds(networks)
            THEN <<<<"K", "B", " ", "s", "e", "r", "v", "i", "c", "e", " ">> \o i \o <<" ", "r", "e", "f", "s", " ", "m", "i", "s", "s", "i", "n", "g", " ", "N", "e", "t", "w", "o", "r", "k", " ">> \o net>> ELSE <<>>))

\* a fragment yaml.safe_load cannot parse, or whose top level is no mapping:
\* load_if_exists(name) or the .get(...) on its result raises
Unparsable(dir, fn) == fn \in DOMAIN dir /\ "malformed" \in DOMAIN dir[fn]

\* a fragment whose key holds null: .get(key, {}) returns None
NullKey(dir, fn) == fn \in DOMAIN dir /\ "null" \in DOMAIN dir[fn]

NetworkFiles(dir) ==
    {n \in DOMAIN dir : StartsWith(n, FnNetworksPrefix) /\ EndsWith(n, YamlSuffix)}

\* lines 519-533 of validate_refs raise: a fragment cannot be loaded, a network
\* fragment holds null (networks.update(None)), or one of the five collections
\* whose keys are taken holds null (None.keys())
RefsLoadRaises(dir) ==
    \/ \E fn \in {FnRegion, FnAz, FnDc, FnOffice, FnSegment, FnComponentsNetwork, FnKb}
                 \cup NetworkFiles(dir) : Unparsable(dir, fn)
    \/ \E fn \in NetworkFiles(dir) \cup {FnRegion, FnAz, FnDc, FnOffice, FnSegment} : NullKey(dir, fn)

\* the entries of the two except clauses; the text of the exception is {e}
ValidationFailed == <<"A", "n", " ", "u", "n", "e", "x", "p", "e", "c", "t", "e", "d", " ", "e", "r", "r", "o", "r", " ", "o", "c", "c", "u", "r", "r", "e", "d", " ", "d", "u", "r", "i", "n", "g", " ", "v", "a", "l", "i", "d", "a", "t", "i", "o", "n", ":", " ">> \o <<"{e}">>
EnumValidationFailed == <<"A", "n", " ", "u", "n", "e", "x", "p", "e", "c", "t", "e", "d", " ", "e", "r", "r", "o", "r", " ", "o", "c", "c", "u", "r", "r", "e", "d", " ", "d", "u", "r", "i", "n", "g", " ", "e", "n", "u", "m", " ", "v", "a", "l", "i", "d", "a", "t", "i", "o", "n", ":", " ">> \o <<"{e}">>

\* validate_refs with the dangling networks of KB services appended to errors
validate_refs_kb_to_errors(dir) ==
    [errors |-> RefErrors(ReadKey(dir, FnRegion, "seaf.ta.services.dc_region"),
                          ReadKey(dir, FnAz, "seaf.ta.services.dc_az"),
                          ReadKey(dir, FnDc, "seaf.ta.services.dc"),
                          ReadKey(dir, FnOffice, "seaf.ta.services.office"),
                          ReadKey(dir, FnSegment, "seaf.ta.services.network_segment"),
                          FlatLoadNetworks(dir),
                          ReadKey(dir, FnComponentsNetwork, "seaf.ta.components.network"))
                \o RefWarnings(ReadKey(dir, FnKb, "seaf.ta.services.kb"), FlatLoadNetworks(dir)),
     warnings |-> <<>>]

\* validate_refs(out_dir): the entries appended before an exception stay
validate_refs(dir) ==
    LET struct == StructErrors(ReadKey(dir, FnRegion, "seaf.ta.services.dc_region"),
                               ReadKey(dir, FnAz, "seaf.ta.services.dc_az"),
                               ReadKey(dir, FnDc, "seaf.ta.services.dc"),
                               ReadKey(dir, FnOffice, "seaf.ta.services.office"),
                               ReadKey(dir, FnSegment, "seaf.ta.services.network_segment"),
                               FlatLoadNetworks(dir))
    IN  IF RefsLoadRaises(dir)
        THEN [errors |-> <<ValidationFailed>>, warnings |-> <<>>]
        ELSE IF NullKey(dir, FnKb)                  \* line 549: None.items()
        THEN [errors |-> Append(struct, ValidationFailed), warnings |-> <<>>]
        ELSE IF NullKey(dir, FnComponentsNetwork)   \* line 553: None.items()
        THEN [errors |-> Append(struct, ValidationFailed),
              warnings |-> RefWarnings(ReadKey(dir, FnKb, "seaf.ta.services.kb"), FlatLoadNetworks(dir))]
        ELSE
    [errors |-> RefErrors(ReadKey(dir, FnRegion, "seaf.ta.services.dc_region"),
                          ReadKey(dir, FnAz, "seaf.ta.services.dc_az"),
                          ReadKey(dir, FnDc, "seaf.ta.services.dc"),
                          ReadKey(dir, FnOffice, "seaf.ta.services.office"),
                          ReadKey(dir, FnSegment, "seaf.ta.services.network_segment"),
                          FlatLoadNetworks(dir),
                          ReadKey(dir, FnComponentsNetwork, "seaf.ta.components.network")),
     warnings |-> RefWarnings(ReadKey(dir, FnKb, "seaf.ta.services.kb"), FlatLoadNetworks(dir))]

\* lines 595, 596, 600: the allowed values
DevTypeAllowed ==
    {<<"U041C", "U0430", "U0440", "U0448", "U0440", "U0443", "U0442", "U0438", "U0437", "U0430", "U0442", "U043E", "U0440">>, <<"U041C", "U0421", "U042D">>, <<"U041A", "U043E", "U043D", "U0442", "U0440", "U043E", "U043B", "U043B", "U0435", "U0440", " ", "W", "i", "F", "i">>, <<"U041A", "U0440", "U0438", "U043F", "U0442", "U043E", "U0448", "U043B", "U044E", "U0437">>, <<"V", "P", "N">>, <<"N", "A", "T">>, <<"U041A", "U043E", "U043C", "U043C", "U0443", "U0442", "U0430", "U0442", "U043E", "U0440">>}
RealizationAllowed == {<<"U0412", "U0438", "U0440", "U0442", "U0443", "U0430", "U043B", "U044C", "U043D", "U044B", "U0439">>, <<"U0424", "U0438", "U0437", "U0438", "U0447", "U0435", "U0441", "U043A", "U0438", "U0439">>}
StatusAllowed == {<<"U0418", "U0441", "U043F", "U043E", "U043B", "U044C", "U0437", "U0443", "U0435", "U0442", "U0441", "U044F">>, <<"U0421", "U043E", "U0437", "U0434", "U0430", "U0435", "U0442", "U0441", "U044F">>, <<"U041D", "U0435", " ", "U0438", "U0441", "U043F", "U043E", "U043B", "U044C", "U0437", "U0443", "U0435", "U0442", "U0441", "U044F">>, <<"U0412", "U044B", "U0432", "U043E", "U0434", "U0438", "U0442", "U0441", "U044F">>}

\* a field that holds a value outside a set
BadValue(d, k, allowed, Msg(_)) ==
    IF Truthy(Get(d, k)) /\ Get(d, k) \notin allowed THEN <<Msg(Get(d, k))>> ELSE <<>>

\* lines 589-593
NetworkEnumErrors(networks) ==
    Collect(networks, LAMBDA i, n :
        BadValue(n, "type", {<<"L", "A", "N">>, <<"W", "A", "N">>}, LAMBDA t : <<"N", "e", "t", "w", "o", "r", "k", " ">> \o i \o <<" ", "h", "a", "s", " ", "i", "n", "v", "a", "l", "i", "d", " ", "t", "y", "p", "e", ":", " ">> \o t)
        \o (IF Get(n, "type") = <<"L", "A", "N">> /\ ~Truthy(Get(n, "lan_type"))
            THEN <<<<"N", "e", "t", "w", "o", "r", "k", " ">> \o i \o <<" ", "m", "i", "s", "s", "i", "n", "g", " ", "l", "a", "n", "_", "t", "y", "p", "e", " ", "f", "o", "r", " ", "L", "A", "N">>>> ELSE <<>>)
        \o (IF Get(n, "type") = <<"L", "A", "N">> /\ ~Truthy(Get(n, "ipnetwork"))
            THEN <<<<"N", "e", "t", "w", "o", "r", "k", " ">> \o i \o <<" ", "m", "i", "s", "s", "i", "n", "g", " ", "i", "p", "n", "e", "t", "w", "o", "r", "k", " ", "f", "o", "r", " ", "L", "A", "N">>>> ELSE <<>>))

\* lines 596-598
DeviceEnumErrors(devices) ==
    Collect(devices, LAMBDA i, d :
        BadValue(d, "realization_type", RealizationAllowed,
                 LAMBDA rt : <<"D", "e", "v", "i", "c", "e", " ">> \o i \o <<" ", "h", "a", "s", " ", "i", "n", "v", "a", "l", "i", "d", " ", "r", "e", "a", "l", "i", "z", "a", "t", "i", "o", "n", "_", "t", "y", "p", "e", ":", " ">> \o rt)
        \o BadValue(d, "type", DevTypeAllowed,
                    LAMBDA dt : <<"D", "e", "v", "i", "c", "e", " ">> \o i \o <<" ", "h", "a", "s", " ", "i", "n", "v", "a", "l", "i", "d", " ", "t", "y", "p", "e", ":", " ">> \o dt))

\* lines 589-598
EnumErrors(networks, devices) == NetworkEnumErrors(networks) \o DeviceEnumErrors(devices)

\* lines 601-603
EnumWarnings(kb_services) ==
    Collect(kb_services, LAMBDA i, svc :
        BadValue(svc, "status", StatusAllowed,
                 LAMBDA st : <<"K", "B", " ", "s", "e", "r", "v", "i", "c", "e", " ">> \o i \o <<" ", "h", "a", "s", " ", "u", "n", "e", "x", "p", "e", "c", "t", "e", "d", " ", "s", "t", "a", "t", "u", "s", ":", " ">> \o st))

\* lines 585-588 of validate_enums raise
EnumsLoadRaises(dir) ==
    \/ \E fn \in {FnComponentsNetwork, FnKb} \cup NetworkFiles(dir) : Unparsable(dir, fn)
    \/ \E fn \in NetworkFiles(dir) : NullKey(dir, fn)

\* validate_enums without its except clause: an exception leaves no report
validate_enums_no_except(dir, rep) ==
    IF EnumsLoadRaises(dir) \/ NullKey(dir, FnComponentsNetwork) \/ NullKey(dir, FnKb)
    THEN [raised |-> TRUE]
    ELSE [errors |-> rep.errors \o EnumErrors(FlatLoadNetworks(dir),
                                    ReadKey(dir, FnComponentsNetwork, "seaf.ta.components.network")),
          warnings |-> rep.warnings \o EnumWarnings(ReadKey(dir, FnKb, "seaf.ta.services.kb"))]

\* validate_enums(out_dir, report): the entries appended before an exception stay
validate_enums(dir, rep) ==
    IF EnumsLoadRaises(dir)
    THEN [errors |-> Append(rep.errors, EnumValidationFailed), warnings |-> rep.warnings]
    ELSE IF NullKey(dir, FnComponentsNetwork)       \* line 596: None.items()
    THEN [errors |-> Append(rep.errors \o NetworkEnumErrors(FlatLoadNetworks(dir)), EnumValidationFailed),
          warnings |-> rep.warnings]
    ELSE IF NullKey(dir, FnKb)                      \* line 601: None.items()
    THEN [errors |-> Append(rep.errors \o EnumErrors(FlatLoadNetworks(dir),
                                ReadKey(dir, FnComponentsNetwork, "seaf.ta.components.network")),
                            EnumValidationFailed),
          warnings |-> rep.warnings]
    ELSE
    [errors |-> rep.errors \o EnumErrors(FlatLoadNetworks(dir),
                                         ReadKey(dir, FnComponentsNetwork, "seaf.ta.components.network")),
     warnings |-> rep.warnings \o EnumWarnings(ReadKey(dir, FnKb, "seaf.ta.services.kb"))]

\* sheet_map of count_entities_in_xlsx
FlatSheetMap ==
    (SheetRegions :> "dc_region") @@ (SheetAZ :> "dc_az") @@ (SheetDC :> "dc")
    @@ (SheetOffices :> "office") @@ (SheetSegments :> "network_segment")
    @@ (SheetNetworks :> "network") @@ (SheetDevices :> "components.network") @@ (SheetKB :> "kb")

\* lines 134-142: the rows counted for a sheet
FlatRowCount(name, df) ==
    LET ids == {i \in 1..Len(df) : /\ "ID Network" \in DOMAIN df[i].row
                                   /\ seaf1_id_clean(df[i].row["ID Network"]) # NoneV}
    IN  IF FlatSheetMap[name] = "network" /\ ids # {} THEN Cardinality(ids) ELSE Len(df)

FlatCountBook(counts, book) ==
    LET S[i \in 0..Len(SheetOrder)] ==
            IF i = 0 THEN counts
            ELSE IF HasSheet(book.sheets, SheetOrder[i]) /\ SheetOrder[i] \in DOMAIN FlatSheetMap
                 THEN CountAdd(S[i - 1], FlatSheetMap[SheetOrder[i]],
                               FlatRowCount(SheetOrder[i], non_empty_rows(book.sheets[SheetOrder[i]])))
                 ELSE S[i - 1]
    IN  IF book.exists THEN S[Len(SheetOrder)] ELSE counts

\* count_entities_in_xlsx(xlsx_files)
count_entities_in_xlsx(files) ==
    LET F[i \in 0..Len(files)] == IF i = 0 THEN <<>> ELSE FlatCountBook(F[i - 1], files[i])
    IN  F[Len(files)]

\* key.replace('seaf.ta.services.', '').replace('seaf.ta.components.', 'components.')
FlatKeyEName ==
    ("seaf.ta.services.dc_region" :> "dc_region") @@ ("seaf.ta.services.dc_az" :> "dc_az")
    @@ ("seaf.ta.services.dc" :> "dc") @@ ("seaf.ta.services.office" :> "office")
    @@ ("seaf.ta.services.network_segment" :> "network_segment")
    @@ ("seaf.ta.services.network" :> "network")
    @@ ("seaf.ta.components.network" :> "components.network")
    @@ ("seaf.ta.services.kb" :> "kb")

\* count_entities_in_yaml_dir(yaml_dir): root.yaml holds a list and is not counted
count_entities_in_yaml_dir(dir) ==
    LET files == SortedNames(DOMAIN dir)
        F[i \in 0..Len(files)] ==
            IF i = 0 THEN <<>>
            ELSE IF "key" \in DOMAIN dir[files[i]]
                 THEN CountAdd(F[i - 1], FlatKeyEName[dir[files[i]].key], Len(dir[files[i]].ents))
                 ELSE F[i - 1]
    IN  F[Len(files)]

\* lines 650-661: the conversions of one workbook
FlatHasRegions(xls) == AnySheet(xls, {SheetRegions, SheetAZ, SheetDC, SheetOffices})
FlatHasNetworks(xls) == AnySheet(xls, {SheetSegments, SheetNetworks, SheetDevices})
FlatIfRegions(xls, file, o) ==
    IF FlatHasRegions(xls) THEN convert_regions_az_dc_offices(xls, file, o) ELSE o
FlatIfNetworks(xls, file, o) ==
    IF FlatHasNetworks(xls) THEN convert_segments_nets_devices(xls, file, o) ELSE o
FlatConvertBook(xls, file, o) ==
    convert_kb_services(xls, file, FlatIfNetworks(xls, file, FlatIfRegions(xls, file, o)))

-----------------------------------------------------------------------------
(* The round trip: _seaf2_xlsx_to_yaml.py, _seaf2_yaml_to_xlsx.py on its output, *)
(* and _seaf2_xlsx_to_yaml.py on the workbooks written.                         *)

Init ==
    /\ pc = "start" /\ inputs \in InputConfigs /\ fidx = 1 /\ out_dir = <<>>
    /\ processed = FALSE /\ src_counts = <<>> /\ dst_counts = <<>> /\ stderr = <<>>
    /\ exit_code = "running" /\ run = 1 /\ doc_first = <<>> /\ xlsx_out = <<>>
    /\ report = <<>> /\ svc_val = NoneV /\ svc_cell = NoneV /\ svc_type = NoneV /\ net_id = NoneV /\ derived = NoneV

\* main(), lines 326-331: the output directory is emptied, the rows are counted
S2Start ==
    /\ pc = "start"
    /\ out_dir' = <<>>
    /\ src_counts' = seaf2_count_entities_in_xlsx(inputs)
    /\ processed' = FALSE
    /\ fidx' = 1
    /\ pc' = "loop"
    /\ UNCHANGED <<inputs, dst_counts, stderr, exit_code, run, doc_first, xlsx_out, report, net_id, svc_val, svc_cell, svc_type, derived>>

\* main(), line 333: a configured workbook that does not exist
S2Missing ==
    /\ pc = "loop" /\ fidx <= Len(inputs) /\ ~inputs[fidx].exists
    /\ stderr' = Append(stderr, [level |-> "ERROR", msg |-> "not found", file |-> fidx])
    /\ fidx' = fidx + 1
    /\ UNCHANGED <<pc, inputs, out_dir, processed, src_counts, dst_counts, exit_code, run,
                   doc_first, xlsx_out, report, net_id, svc_val, svc_cell, svc_type, derived>>

\* main(), lines 334-340: one workbook through the conversions its sheets call for
S2Convert ==
    /\ pc = "loop" /\ fidx <= Len(inputs) /\ inputs[fidx].exists
    /\ LET xls == inputs[fidx].sheets IN
       /\ out_dir' = Seaf2ConvertBook(xls, out_dir)
       /\ processed' = (processed \/ Seaf2Processed(xls))
       /\ stderr' = IF Seaf2NetworksRaise(xls)      \* line 340: print(f"ERROR: {p.name}: {e}")
                     THEN Append(stderr, [level |-> "ERROR", msg |-> "exception", file |-> fidx])
                     ELSE stderr
    /\ fidx' = fidx + 1
    /\ UNCHANGED <<pc, inputs, src_counts, dst_counts, exit_code, run, doc_first,
                   xlsx_out, report, net_id, svc_val, svc_cell, svc_type, derived>>

\* main(), line 341: nothing was processed
S2Fail ==
    /\ pc = "loop" /\ fidx > Len(inputs) /\ ~processed
    /\ exit_code' = 1
    /\ pc' = "exit"
    /\ UNCHANGED <<inputs, fidx, out_dir, processed, src_counts, dst_counts, stderr, run,
                   doc_first, xlsx_out, report, net_id, svc_val, svc_cell, svc_type, derived>>

\* main(), lines 342-347: the manifest and the summary
S2Finish ==
    /\ pc = "loop" /\ fidx > Len(inputs) /\ processed
    /\ out_dir' = seaf2_write_root(out_dir)
    /\ dst_counts' = seaf2_count_entities_in_yaml_dir(out_dir')
    /\ exit_code' = 0
    /\ pc' = "converted"
    /\ UNCHANGED <<inputs, fidx, processed, src_counts, stderr, run, doc_first, xlsx_out,
                   report, net_id, svc_val, svc_cell, svc_type, derived>>

\* _seaf2_yaml_to_xlsx.py main() on the document of the first run
Y2xMain ==
    /\ pc = "converted" /\ run = 1
    /\ doc_first' = out_dir
    /\ xlsx_out' = seaf2_yaml_to_xlsx(out_dir)
    /\ pc' = "written"
    /\ UNCHANGED <<inputs, fidx, out_dir, processed, src_counts, dst_counts, stderr, exit_code,
                   run, report, net_id, svc_val, svc_cell, svc_type, derived>>

\* the second run of _seaf2_xlsx_to_yaml.py is configured with the workbooks written
RunAgain ==
    /\ pc = "written"
    /\ inputs' = xlsx_out
    /\ run' = 2
    /\ exit_code' = "running"
    /\ pc' = "start"
    /\ UNCHANGED <<fidx, out_dir, processed, src_counts, dst_counts, stderr, doc_first, xlsx_out,
                   report, net_id, svc_val, svc_cell, svc_type, derived>>

Next == S2Start \/ S2Missing \/ S2Convert \/ S2Fail \/ S2Finish \/ Y2xMain \/ RunAgain

Spec == Init /\ [][Next]_vars

-----------------------------------------------------------------------------
(* xlsx_to_yaml.py main(): the flat converter with validation *)

InitSeaf1 ==
    /\ pc = "start" /\ inputs \in InputConfigs /\ fidx = 1 /\ out_dir = <<>>
    /\ processed = FALSE /\ src_counts = <<>> /\ dst_counts = <<>> /\ stderr = <<>>
    /\ exit_code = "running" /\ run = 1 /\ doc_first = <<>> /\ xlsx_out = <<>>
    /\ report = <<>> /\ svc_val = NoneV /\ svc_cell = NoneV /\ svc_type = NoneV /\ net_id = NoneV /\ derived = NoneV

\* lines 626-642: the output directory is emptied, the rows are counted
F1Start ==
    /\ pc = "start"
    /\ out_dir' = <<>>
    /\ src_counts' = count_entities_in_xlsx(inputs)
    /\ processed' = FALSE
    /\ fidx' = 1
    /\ pc' = "loop"
    /\ UNCHANGED <<inputs, dst_counts, stderr, exit_code, run, doc_first, xlsx_out, report, net_id, svc_val, svc_cell, svc_type, derived>>

\* lines 645-647: a configured workbook that does not exist
F1Missing ==
    /\ pc = "loop" /\ fidx <= Len(inputs) /\ ~inputs[fidx].exists
    /\ stderr' = Append(stderr, [level |-> "WARN", msg |-> "not found", file |-> fidx])
    /\ fidx' = fidx + 1
    /\ UNCHANGED <<pc, inputs, out_dir, processed, src_counts, dst_counts, exit_code, run,
                   doc_first, xlsx_out, report, net_id, svc_val, svc_cell, svc_type, derived>>

\* lines 648-661: one workbook through the conversions its sheets call for
F1Convert ==
    /\ pc = "loop" /\ fidx <= Len(inputs) /\ inputs[fidx].exists
    /\ LET xls == inputs[fidx].sheets
           o == FlatConvertBook(inputs[fidx].sheets, fidx, FlatOut(out_dir, stderr))
       IN  /\ out_dir' = o.dir
           /\ stderr' = o.err
           /\ processed' = (processed \/ FlatHasRegions(xls) \/ FlatHasNetworks(xls)
                            \/ HasSheet(xls, SheetKB))
    /\ fidx' = fidx + 1
    /\ UNCHANGED <<pc, inputs, src_counts, dst_counts, exit_code, run, doc_first,
                   xlsx_out, report, net_id, svc_val, svc_cell, svc_type, derived>>

\* lines 665-667: nothing was processed
F1Fail ==
    /\ pc = "loop" /\ fidx > Len(inputs) /\ ~processed
    /\ exit_code' = 1
    /\ pc' = "exit"
    /\ UNCHANGED <<inputs, fidx, out_dir, processed, src_counts, dst_counts, stderr, run,
                   doc_first, xlsx_out, report, net_id, svc_val, svc_cell, svc_type, derived>>

\* lines 669-723: the manifest, the two validations, the summary; exit code 0
\* with or without validation errors
F1Finish ==
    /\ pc = "loop" /\ fidx > Len(inputs) /\ processed
    /\ out_dir' = write_root(out_dir)
    /\ report' = validate_enums(out_dir', validate_refs(out_dir'))
    /\ dst_counts' = count_entities_in_yaml_dir(out_dir')
    /\ exit_code' = 0
    /\ pc' = "validated"
    /\ UNCHANGED <<inputs, fidx, processed, src_counts, stderr, run, doc_first, xlsx_out,
                   net_id, svc_val, svc_cell, svc_type, derived>>

NextSeaf1 == F1Start \/ F1Missing \/ F1Convert \/ F1Fail \/ F1Finish

SpecSeaf1 == InitSeaf1 /\ [][NextSeaf1]_vars

-----------------------------------------------------------------------------
(* derive_location_from_network on its own *)

\* the largest number of dot-separated parts after the company prefix
MaxParts == 3

DeriveTokens ==
    {<<"n", "e", "t", "w", "o", "r", "k">>, <<"l", "a", "n">>, <<"w", "a", "n">>, <<"d", "c">>, <<"7">>, <<"o", "f", "f", "i", "c", "e">>, <<"m", "s", "k">>, <<"d", "c", "7">>, <<"x">>, <<"m", "i", "s", "c">>}

\* network IDs: the prefix org and up to MaxParts parts, and three longer IDs
NetIds ==
    {Join(<<<<"o", "r", "g">>>> \o t, <<".">>) : t \in SeqsUpTo(DeriveTokens, MaxParts)}
    \cup {<<"o", "r", "g", ".", "n", "e", "t", "w", "o", "r", "k", ".", "l", "a", "n", ".", "d", "c", ".", "7", ".", "x">>, <<"o", "r", "g", ".", "n", "e", "t", "w", "o", "r", "k", ".", "w", "a", "n", ".", "o", "f", "f", "i", "c", "e", ".", "m", "s", "k">>, <<"o", "r", "g", ".", "n", "e", "t", "w", "o", "r", "k", ".", "l", "a", "n", ".", "d", "c", "7", ".", "x">>,
          <<"o", "r", "g", ".", "n", "e", "t", "w", "o", "r", "k", ".", "w", "a", "n", ".", "o", "f", "f", "i", "c", "e", ".", "l", "a", "n", ".", "a">>, NoneV, <<>>}

InitDerive ==
    /\ pc = "derive" /\ net_id \in NetIds /\ derived = NoneV
    /\ inputs = <<>> /\ fidx = 1 /\ out_dir = <<>>
    /\ processed = FALSE /\ src_counts = <<>> /\ dst_counts = <<>> /\ stderr = <<>>
    /\ exit_code = "running" /\ run = 1 /\ doc_first = <<>> /\ xlsx_out = <<>>
    /\ report = <<>> /\ svc_val = NoneV /\ svc_cell = NoneV /\ svc_type = NoneV

\* l := derive_location_from_network(n)
Derive ==
    /\ pc = "derive"
    /\ derived' = derive_location_from_network(net_id)
    /\ pc' = "derived"
    /\ UNCHANGED <<inputs, fidx, out_dir, processed, src_counts, dst_counts, stderr, exit_code,
                   run, doc_first, xlsx_out, report, net_id, svc_val, svc_cell, svc_type>>

NextDerive == Derive

SpecDerive == InitDerive /\ [][NextDerive]_vars

-----------------------------------------------------------------------------
(* Properties *)

\* the fragments of a document that hold a collection
Fragments(dir, key) == {f \in DOMAIN dir : "key" \in DOMAIN dir[f] /\ dir[f].key = key}

\* the collections of a document
KeysOf(dir) == {dir[f].key : f \in {g \in DOMAIN dir : "key" \in DOMAIN dir[g]}}

\* the IDs of a collection, whatever fragments hold them
IdsOf(dir, key) == UNION {DictIds(dir[f].ents) : f \in Fragments(dir, key)}

\* the entity of an ID of a collection
EntityOf(dir, key, id) ==
    DictVal(dir[CHOOSE f \in Fragments(dir, key) : id \in DictIds(dir[f].ents)].ents, id)

\* two values of one field: lists are compared without their order
SameField(a, b) == a = b \/ SeqToSet(a) = SeqToSet(b)

SameEntity(a, b) ==
    /\ DOMAIN a = DOMAIN b
    /\ \A k \in DOMAIN a :
          IF k = "sber" THEN a[k] = b[k]
          ELSE IF k = "ha" THEN a[k] = b[k]
          ELSE SameField(a[k], b[k])

SameDocument(d1, d2) ==
    /\ KeysOf(d1) = KeysOf(d2)
    /\ \A key \in KeysOf(d1) :
          /\ IdsOf(d1, key) = IdsOf(d2, key)
          /\ \A id \in IdsOf(d1, key) :
                SameEntity(EntityOf(d1, key, id), EntityOf(d2, key, id))

\* the second run of the round trip has produced its document
RoundTripDone == run = 2 /\ pc = "converted"

\* C1: the document of the second run equals the document of the first run:
\* the same collections, the same IDs in each and the same fields for every
\* entity; the grouping into files is not compared.
C1_RoundTripEqual == RoundTripDone => SameDocument(doc_first, out_dir)

TechKeys == {TechKey(TechTypes[i]) : i \in 1..Len(TechTypes)}

\* C9: every TechService entity of the first document is in the collection of
\* the same type in the document of the second run.
C9_TypeSurvives ==
    RoundTripDone =>
        \A key \in TechKeys : IdsOf(doc_first, key) \subseteq IdsOf(out_dir, key)

DeviceKey == "seaf.company.ta.components.networks"

\* the locations the device entities of a document hold
DeviceLocations(dir) ==
    {Get(EntityOf(dir, DeviceKey, id), "location") : id \in IdsOf(dir, DeviceKey)} \ {NoneV}

\* the device entities of a document are the fan-out of one base row
IsFanOutOf(dir, base) ==
    /\ Cardinality(IdsOf(dir, DeviceKey)) >= 2
    /\ \A id \in IdsOf(dir, DeviceKey) :
          /\ Truthy(Get(EntityOf(dir, DeviceKey, id), "location"))
          /\ id = FanOutId(base, Get(EntityOf(dir, DeviceKey, id), "location"))

\* C4: when the devices of the first document are the fan-out of one base row,
\* the devices that come back from the workbook hold the same set of locations.
C4_FanOutInverse ==
    (RoundTripDone /\ \E base \in {Dev17, Dev18} : IsFanOutOf(doc_first, base))
        => DeviceLocations(out_dir) = DeviceLocations(doc_first)

\* a run over one workbook has produced its document
OneBookDone == run = 1 /\ pc \in {"converted", "validated"} /\ Len(inputs) = 1

\* the rows of a sheet of the workbook, as the converters iterate them
RowsIn(sheet) ==
    IF HasSheet(inputs[1].sheets, sheet) THEN non_empty_rows(inputs[1].sheets[sheet]) ELSE <<>>

TechId(r) == id_clean(Get(r.row, "Identifikator"))

\* C2: every ID of the TechService sheet is the ID of exactly one entity, and
\* the networks and the locations of that entity are the unions of those of all
\* the rows with the ID.
C2_TechMerge ==
    OneBookDone =>
        \A i \in 1..Len(RowsIn(SheetTech)) :
            LET rows == RowsIn(SheetTech)
                oid == TechId(rows[i])
                same == {j \in 1..Len(rows) : TechId(rows[j]) = oid}
            IN  Truthy(oid) =>
                  /\ Cardinality({key \in TechKeys : oid \in IdsOf(out_dir, key)}) = 1
                  /\ \A key \in {k \in TechKeys : oid \in IdsOf(out_dir, k)} :
                        /\ SeqToSet(EntityOf(out_dir, key, oid).network_connection)
                              = UNION {SeqToSet(Seaf2TechNets(rows[j].row)) : j \in same}
                        /\ SeqToSet(EntityOf(out_dir, key, oid).location)
                              = UNION {SeqToSet(Seaf2TechLocs(rows[j].row)) : j \in same}

\* the workbook holds one device row, and the row has an ID
OneDeviceRow ==
    /\ OneBookDone
    /\ Len(RowsIn(SheetDevices)) = 1
    /\ Truthy(id_clean(Get(RowsIn(SheetDevices)[1].row, "ID Ustrojstva")))

DeviceRowId == id_clean(Get(RowsIn(SheetDevices)[1].row, "ID Ustrojstva"))
DeviceRowLocs == SeqToSet(parse_locations(Get(RowsIn(SheetDevices)[1].row, "Raspolozhenie")))
DeviceRowSegment == id_clean(Get(RowsIn(SheetDevices)[1].row, "Raspolozhenie (ID segmenta/zony)"))

\* C3: a device row with k >= 2 distinct locations gives k entities, one for
\* each location, with IDs that extend the ID of the row; a row with at most
\* one location gives one entity with the ID of the row.
C3_FanOut ==
    OneDeviceRow =>
        IF Cardinality(DeviceRowLocs) >= 2
        THEN /\ Cardinality(IdsOf(out_dir, DeviceKey)) = Cardinality(DeviceRowLocs)
             /\ \A l \in DeviceRowLocs :
                   \E id \in IdsOf(out_dir, DeviceKey) :
                       /\ StartsWith(id, DeviceRowId) /\ Len(id) > Len(DeviceRowId)
                       /\ Get(EntityOf(out_dir, DeviceKey, id), "location") = l
        ELSE IdsOf(out_dir, DeviceKey) = {DeviceRowId}

\* the device IDs of a document of either converter
DeviceIds(dir) == IdsOf(dir, DeviceKey) \cup IdsOf(dir, "seaf.ta.components.network")

\* C5: a device row with two locations and a segment that no segment sheet
\* defines gives two entities and, in the same run, a report with the error
\* 'Device <id> refs missing Segment <S>' for each of them.
C5_FanOutAndReport ==
    (/\ OneDeviceRow
     /\ Cardinality(DeviceRowLocs) = 2
     /\ Truthy(DeviceRowSegment)
     /\ RowsIn(SheetSegments) = <<>>)
        => /\ Cardinality(DeviceIds(out_dir)) = 2
           /\ "errors" \in DOMAIN report
           /\ \A id \in DeviceIds(out_dir) :
                 (<<"D", "e", "v", "i", "c", "e", " ">> \o id \o <<" ", "r", "e", "f", "s", " ", "m", "i", "s", "s", "i", "n", "g", " ", "S", "e", "g", "m", "e", "n", "t", " ">> \o DeviceRowSegment)
                     \in SeqToSet(report.errors)

\* the ID column of every sheet but the TechService sheets
IdColumn ==
    (SheetRegions :> "ID Regiona") @@ (SheetAZ :> "ID AZ") @@ (SheetDC :> "ID DC")
    @@ (SheetOffices :> "ID Ofisa") @@ (SheetSegments :> "ID setevye segmenta/zony")
    @@ (SheetNetworks :> "ID Network") @@ (SheetDevices :> "ID Ustrojstva")
    @@ (SheetKB :> "ID KB servisa")

\* row i of a sheet has no ID, or the ID of a row before it
Skipped(rows, i, col) ==
    \/ ~Truthy(id_clean(Get(rows[i].row, col)))
    \/ \E j \in 1..(i - 1) : id_clean(Get(rows[j].row, col)) = id_clean(Get(rows[i].row, col))

\* C7: for every row without an ID and every row that repeats an ID of its
\* sheet, a warning naming the sheet and the row is on stderr.
C7_SkipWarns ==
    OneBookDone =>
        \A sh \in DOMAIN IdColumn :
            \A i \in 1..Len(RowsIn(sh)) :
                Skipped(RowsIn(sh), i, IdColumn[sh]) =>
                    \E w \in 1..Len(stderr) :
                        /\ stderr[w].level = "WARN"
                        /\ "sheet" \in DOMAIN stderr[w]
                        /\ stderr[w].sheet = sh
                        /\ stderr[w].row = RowsIn(sh)[i].index + 2

LblBackup == <<"B", "a", "c", "k", "u", "p">>

\* the entity type the classification order gives a row: the special table on
\* the service-type cell, then the class label, then the reservation type
OrderedType(svc, cls, res) ==
    IF InTable(SPECIAL_ENTITY_MAP, svc) THEN TableGet(SPECIAL_ENTITY_MAP, svc, "none")
    ELSE IF cls = ClsCluster THEN "clusters"
    ELSE IF cls = LblMonitoring THEN "monitorings"
    ELSE IF cls = LblBackup THEN "backups"
    ELSE IF cls = ClsCompute THEN "compute_services"
    ELSE IF IsClusterReservation(res) THEN "clusters"
    ELSE "compute_services"

\* row i of the TechService sheet is the first row with its ID
TechAccepted(rows, i) ==
    /\ Truthy(TechId(rows[i]))
    /\ \A j \in 1..(i - 1) : TechId(rows[j]) # TechId(rows[i])

\* C8: the entity of every accepted TechService row is in the collection the
\* classification order names, and count_entities_in_xlsx gives the row the
\* type convert_tech_services gives it.
C8_Classification ==
    OneBookDone =>
        \A i \in 1..Len(RowsIn(SheetTech)) :
            LET row == RowsIn(SheetTech)[i].row
                svc == ws_clean(Get(row, "Tip servisa"))
                cls == ws_clean(Get(row, "Klass"))
                res == ws_clean(Get(row, "Tip rezervirovaniya"))
            IN  TechAccepted(RowsIn(SheetTech), i) =>
                  /\ TechId(RowsIn(SheetTech)[i])
                        \in IdsOf(out_dir, TechKey(OrderedType(svc, cls, res)))
                  /\ Seaf2CountType(row) = Seaf2TechType(PyOr(svc, cls), cls, res)

\* C6: after a run of the flat converter no ID is the key of entities of two
\* collections.
C6_GlobalUnique ==
    (pc = "validated") =>
        \A k1 \in KeysOf(out_dir) : \A k2 \in KeysOf(out_dir) :
            k1 # k2 => IdsOf(out_dir, k1) \cap IdsOf(out_dir, k2) = {}

\* C10: derive_location_from_network gives <prefix>.dc.<N> for an ID with the
\* parts dc and <N>, <prefix>.office.<token> for an ID with the parts office and
\* a token other than lan and wan, and null for every other ID.
C10_DeriveLocation ==
    (pc = "derived") =>
        derived =
            IF ~Truthy(net_id) THEN NoneV
            ELSE LET parts == SplitDot(net_id)
                     dc == {i \in 1..(Len(parts) - 1) :
                               /\ parts[i] = <<"d", "c">>
                               /\ parts[i + 1] # <<>>
                               /\ \A c \in SeqToSet(parts[i + 1]) : c \in Digits}
                     office == {i \in 1..(Len(parts) - 1) :
                                   /\ parts[i] = <<"o", "f", "f", "i", "c", "e">>
                                   /\ parts[i + 1] # <<>>
                                   /\ parts[i + 1] \notin {<<"l", "a", "n">>, <<"w", "a", "n">>}}
                 IN  IF dc # {} THEN parts[1] \o <<".", "d", "c", ".">> \o parts[Min(dc) + 1]
                     ELSE IF office # {} THEN parts[1] \o <<".", "o", "f", "f", "i", "c", "e", ".">> \o parts[Min(office) + 1]
                     ELSE NoneV
-----------------------------------------------------------------------------
(* Canonicalization of service types: normalize_svc_type on its own, and the
   cell normalize_val writes read back through ws_clean and normalize_svc_type *)

\* the longest run of blanks put before and after a value
MaxPad == 1

\* the letters of the two alphabets that look alike: the seven pairs of
\* str.maketrans('CAEOPXy', ...), the lower-case letters a, c, e, o, p, x and
\* the capitals B, H, K, M, T
LookAlike(c) ==
    CASE c = "C" -> "U0421" [] c = "U0421" -> "C"
      [] c = "A" -> "U0410" [] c = "U0410" -> "A"
      [] c = "E" -> "U0415" [] c = "U0415" -> "E"
      [] c = "O" -> "U041E" [] c = "U041E" -> "O"
      [] c = "P" -> "U0420" [] c = "U0420" -> "P"
      [] c = "X" -> "U0425" [] c = "U0425" -> "X"
      [] c = "y" -> "U0443" [] c = "U0443" -> "y"
      [] c = "a" -> "U0430" [] c = "U0430" -> "a"
      [] c = "c" -> "U0441" [] c = "U0441" -> "c"
      [] c = "e" -> "U0435" [] c = "U0435" -> "e"
      [] c = "o" -> "U043E" [] c = "U043E" -> "o"
      [] c = "p" -> "U0440" [] c = "U0440" -> "p"
      [] c = "x" -> "U0445" [] c = "U0445" -> "x"
      [] c = "B" -> "U0412" [] c = "U0412" -> "B"
      [] c = "H" -> "U041D" [] c = "U041D" -> "H"
      [] c = "K" -> "U041A" [] c = "U041A" -> "K"
      [] c = "M" -> "U041C" [] c = "U041C" -> "M"
      [] c = "T" -> "U0422" [] c = "U0422" -> "T"
      [] OTHER -> c

\* v with the letter at position i replaced by its look-alike (v itself for i = 0)
SwapAt(v, i) == [j \in 1..Len(v) |-> IF j = i THEN LookAlike(v[j]) ELSE v[j]]
Blanks(n) == [j \in 1..n |-> " "]

\* the allowed value, the position swapped and the blanks around a value drawn
SvcDraws ==
    { <<k, i, l, r>> : k \in 1..Len(AllowedSvcTypes), i \in 0..6, l \in 0..MaxPad, r \in 0..MaxPad }
SvcDrawPos(d) == IF d[2] = 0 THEN 0 ELSE ((d[2] * 7) % Len(AllowedSvcTypes[d[1]])) + 1
SvcDrawn(d) == Blanks(d[3]) \o SwapAt(AllowedSvcTypes[d[1]], SvcDrawPos(d)) \o Blanks(d[4])

InitSvc ==
    /\ pc = "svc" /\ svc_val \in {SvcDrawn(d) : d \in SvcDraws}
    /\ svc_cell = NoneV /\ svc_type = NoneV
    /\ inputs = <<>> /\ fidx = 1 /\ out_dir = <<>> /\ processed = FALSE
    /\ src_counts = <<>> /\ dst_counts = <<>> /\ stderr = <<>> /\ exit_code = "running"
    /\ run = 1 /\ doc_first = <<>> /\ xlsx_out = <<>> /\ report = <<>>
    /\ net_id = NoneV /\ derived = NoneV

svcFrame == <<inputs, fidx, out_dir, processed, src_counts, dst_counts, stderr, exit_code,
              run, doc_first, xlsx_out, report, net_id, derived>>

\* normalize_svc_type(val) on the value drawn
SvcNormalize ==
    /\ pc = "svc"
    /\ svc_type' = normalize_svc_type(svc_val)
    /\ pc' = "svc_normalized"
    /\ UNCHANGED <<svc_val, svc_cell>> /\ UNCHANGED svcFrame

\* save_tech_services: obj['Тип сервиса'] = normalize_val(service_type, default),
\* written to the sheet and read back by pandas
SvcWrite ==
    /\ pc = "svc"
    /\ svc_cell' = ExcelCell(normalize_val(svc_val, DefaultSvcType))
    /\ pc' = "svc_written"
    /\ UNCHANGED <<svc_val, svc_type>> /\ UNCHANGED svcFrame

\* convert_tech_services: svc_raw = ws_clean(row.get('Тип сервиса')), then
\* normalize_svc_type(svc_raw)
SvcRead ==
    /\ pc = "svc_written"
    /\ svc_type' = normalize_svc_type(ws_clean(svc_cell))
    /\ pc' = "svc_read"
    /\ UNCHANGED <<svc_val, svc_cell>> /\ UNCHANGED svcFrame

NextSvc == SvcNormalize \/ SvcWrite \/ SvcRead
SpecSvc == InitSvc /\ [][NextSvc]_vars

\* the allowed values a drawn value differs from by look-alike letters and by
\* blanks at its ends only
SameLetters(a, b) ==
    /\ Len(a) = Len(b)
    /\ \A j \in 1..Len(a) : a[j] = b[j] \/ a[j] = LookAlike(b[j])
VariantOf(val) == {k \in 1..Len(AllowedSvcTypes) : SameLetters(Strip(val), AllowedSvcTypes[k])}

\* C11: normalize_svc_type maps every string that differs from an allowed
\* service type v only by look-alike letters of the other alphabet and by
\* blanks at its ends to v itself.
C11_Convergence ==
    pc = "svc_normalized" =>
        \A k \in VariantOf(svc_val) : svc_type = AllowedSvcTypes[k]

\* C12: every allowed service type v, written to a cell by normalize_val and
\* read back by ws_clean and normalize_svc_type, comes back as v.
C12_BothDirections ==
    (pc = "svc_read" /\ \E k \in 1..Len(AllowedSvcTypes) : svc_val = AllowedSvcTypes[k])
        => svc_type = svc_val

-----------------------------------------------------------------------------
(* The validation report of xlsx_to_yaml.py *)

\* the collections validate_refs loads from the output directory
OutRegions == ReadKey(out_dir, FnRegion, "seaf.ta.services.dc_region")
OutAzs == ReadKey(out_dir, FnAz, "seaf.ta.services.dc_az")
OutDcs == ReadKey(out_dir, FnDc, "seaf.ta.services.dc")
OutOffices == ReadKey(out_dir, FnOffice, "seaf.ta.services.office")
OutSegments == ReadKey(out_dir, FnSegment, "seaf.ta.services.network_segment")
OutNetworks == FlatLoadNetworks(out_dir)
OutDevices == ReadKey(out_dir, FnComponentsNetwork, "seaf.ta.components.network")
OutKbs == ReadKey(out_dir, FnKb, "seaf.ta.services.kb")
OutLocations == DictIds(OutDcs) \cup DictIds(OutOffices)

Errors == SeqToSet(report.errors)
Warnings == SeqToSet(report.warnings)

\* a scalar reference field k of every entity of d: dangling exactly when reported
ScalarRefs(d, k, ids, kind, what) ==
    \A a \in 1..Len(d) :
        LET r == Get(d[a].e, k) IN
        (Truthy(r) /\ r \notin ids) <=> (kind \o d[a].id \o what \o r) \in Errors

\* a list reference field k of every entity of d, reported to the list `to`
ListRefs(d, k, ids, kind, what, to) ==
    \A a \in 1..Len(d) : \A r \in SeqToSet(GetList(d[a].e, k)) :
        (r \notin ids) <=> (kind \o d[a].id \o what \o r) \in to

\* C13: every non-empty reference that does not resolve in the ID universe of
\* its type is reported with the entity and the missing ID, in `errors` for
\* every field except the networks of a KB service, which go to `warnings`
\* and never to `errors`; an empty or resolvable reference is not reported.
C13_RefClosure ==
    pc = "validated" =>
        /\ ScalarRefs(OutAzs, "region", DictIds(OutRegions), <<"A", "Z", " ">>, <<" ", "r", "e", "f", "s", " ", "m", "i", "s", "s", "i", "n", "g", " ", "R", "e", "g", "i", "o", "n", " ">>)
        /\ ScalarRefs(OutDcs, "availabilityzone", DictIds(OutAzs), <<"D", "C", " ">>, <<" ", "r", "e", "f", "s", " ", "m", "i", "s", "s", "i", "n", "g", " ", "A", "Z", " ">>)
        /\ ScalarRefs(OutOffices, "region", DictIds(OutRegions), <<"O", "f", "f", "i", "c", "e", " ">>, <<" ", "r", "e", "f", "s", " ", "m", "i", "s", "s", "i", "n", "g", " ", "R", "e", "g", "i", "o", "n", " ">>)
        /\ \A a \in 1..Len(OutSegments) :
              LET l == SberGet(OutSegments[a].e, "location") IN
              (Truthy(l) /\ l \notin OutLocations)
                  <=> (<<"S", "e", "g", "m", "e", "n", "t", " ">> \o OutSegments[a].id \o <<" ", "h", "a", "s", " ", "u", "n", "k", "n", "o", "w", "n", " ", "l", "o", "c", "a", "t", "i", "o", "n", " ">> \o l) \in Errors
        /\ ListRefs(OutNetworks, "segment", DictIds(OutSegments), <<"N", "e", "t", "w", "o", "r", "k", " ">>, <<" ", "r", "e", "f", "s", " ", "m", "i", "s", "s", "i", "n", "g", " ", "S", "e", "g", "m", "e", "n", "t", " ">>, Errors)
        /\ ListRefs(OutNetworks, "location", OutLocations, <<"N", "e", "t", "w", "o", "r", "k", " ">>, <<" ", "h", "a", "s", " ", "u", "n", "k", "n", "o", "w", "n", " ", "l", "o", "c", "a", "t", "i", "o", "n", " ">>, Errors)
        /\ ScalarRefs(OutDevices, "segment", DictIds(OutSegments), <<"D", "e", "v", "i", "c", "e", " ">>, <<" ", "r", "e", "f", "s", " ", "m", "i", "s", "s", "i", "n", "g", " ", "S", "e", "g", "m", "e", "n", "t", " ">>)
        /\ ListRefs(OutDevices, "network_connection", DictIds(OutNetworks), <<"D", "e", "v", "i", "c", "e", " ">>, <<" ", "r", "e", "f", "s", " ", "m", "i", "s", "s", "i", "n", "g", " ", "N", "e", "t", "w", "o", "r", "k", " ">>, Errors)
        /\ ListRefs(OutKbs, "network_connection", DictIds(OutNetworks), <<"K", "B", " ", "s", "e", "r", "v", "i", "c", "e", " ">>, <<" ", "r", "e", "f", "s", " ", "m", "i", "s", "s", "i", "n", "g", " ", "N", "e", "t", "w", "o", "r", "k", " ">>, Warnings)
        /\ \A a \in 1..Len(OutKbs) : \A r \in SeqToSet(GetList(OutKbs[a].e, "network_connection")) :
              (<<"K", "B", " ", "s", "e", "r", "v", "i", "c", "e", " ">> \o OutKbs[a].id \o <<" ", "r", "e", "f", "s", " ", "m", "i", "s", "s", "i", "n", "g", " ", "N", "e", "t", "w", "o", "r", "k", " ">> \o r) \notin Errors

\* C13: a validated project in which a device names a segment that does not
\* exist (reported in errors) and one that does, and a KB service names a
\* network that does not exist (reported in warnings) and one that does
C13_Witness ==
    /\ pc = "validated" /\ inputs = AuditBooks
    /\ (<<"D", "e", "v", "i", "c", "e", " ", "o", "r", "g", ".", "n", "e", "t", "d", "e", "v", ".", "1", "7", " ", "r", "e", "f", "s", " ", "m", "i", "s", "s", "i", "n", "g", " ", "S", "e", "g", "m", "e", "n", "t", " ", "o", "r", "g", ".", "s", "e", "g", ".", "y">>) \in Errors
    /\ (<<"K", "B", " ", "s", "e", "r", "v", "i", "c", "e", " ", "o", "r", "g", ".", "k", "b", ".", "a", "v", " ", "r", "e", "f", "s", " ", "m", "i", "s", "s", "i", "n", "g", " ", "N", "e", "t", "w", "o", "r", "k", " ", "o", "r", "g", ".", "n", "e", "t", ".", "d", "c", "2", ".", "b">>) \in Warnings
    /\ Get(DictVal(OutDevices, Dev18), "segment") \in DictIds(OutSegments)
    /\ NetA \in DictIds(OutNetworks)

\* the locations of the segments of network n that exist (lines 562-567)
SegmentLocs(n) ==
    {SberGet(DictVal(OutSegments, x), "location") :
        x \in {y \in SeqToSet(GetList(n, "segment")) :
                  /\ y \in DictIds(OutSegments)
                  /\ Truthy(SberGet(DictVal(OutSegments, y), "location"))}}

\* the entry of line 571 for network i and location l
LocationMsg(i, l) ==
    <<"N", "e", "t", "w", "o", "r", "k", " ", "'">> \o i \o <<"'", " ", "i", "s", " ", "i", "n", " ", "l", "o", "c", "a", "t", "i", "o", "n", " ", "'">> \o l
    \o <<"'", ",", " ", "b", "u", "t", " ", "n", "o", "n", "e", " ", "o", "f", " ", "i", "t", "s", " ", "a", "s", "s", "o", "c", "i", "a", "t", "e", "d", " ", "s", "e", "g", "m", "e", "n", "t", "s", " ", "e", "x", "i", "s", "t", " ", "i", "n", " ", "t", "h", "a", "t", " ", "l", "o", "c", "a", "t", "i", "o", "n", ".">>

\* C14: a location-consistency error is recorded for a network exactly when it
\* declares a non-empty location list and none of its existing segments has a
\* location equal to one of the declared locations; a network with a segment
\* sharing one of its locations gets no such error.
C14_LocationCheck ==
    pc = "validated" =>
        \A a \in 1..Len(OutNetworks) :
            LET locs == SeqToSet(GetList(OutNetworks[a].e, "location")) IN
            (\E l \in locs : LocationMsg(OutNetworks[a].id, l) \in Errors)
                <=> (locs # {} /\ locs \cap SegmentLocs(OutNetworks[a].e) = {})

\* some entry of S starts with the text given
HasEntry(S, text) == \E m \in S : StartsWith(m, text)

NetworkTypes == {<<"L", "A", "N">>, <<"W", "A", "N">>}

\* C15: validate_enums records an error for every network whose type is not
\* LAN or WAN, a missing type included; for every LAN network without lan_type
\* and for every LAN network without ipnetwork; for every device whose type or
\* realization_type is outside its domain; and a warning, never an error, for
\* every KB service whose status is outside its domain.
C15_EnumValidation ==
    pc = "validated" =>
        /\ \A a \in 1..Len(OutNetworks) :
              LET i == OutNetworks[a].id
                  n == OutNetworks[a].e
              IN  /\ Get(n, "type") \notin NetworkTypes
                        => HasEntry(Errors, <<"N", "e", "t", "w", "o", "r", "k", " ">> \o i \o <<" ", "h", "a", "s", " ", "i", "n", "v", "a", "l", "i", "d", " ", "t", "y", "p", "e">>)
                  /\ (Get(n, "type") = <<"L", "A", "N">> /\ ~Truthy(Get(n, "lan_type")))
                        => (<<"N", "e", "t", "w", "o", "r", "k", " ">> \o i \o <<" ", "m", "i", "s", "s", "i", "n", "g", " ", "l", "a", "n", "_", "t", "y", "p", "e", " ", "f", "o", "r", " ", "L", "A", "N">>) \in Errors
                  /\ (Get(n, "type") = <<"L", "A", "N">> /\ ~Truthy(Get(n, "ipnetwork")))
                        => (<<"N", "e", "t", "w", "o", "r", "k", " ">> \o i \o <<" ", "m", "i", "s", "s", "i", "n", "g", " ", "i", "p", "n", "e", "t", "w", "o", "r", "k", " ", "f", "o", "r", " ", "L", "A", "N">>) \in Errors
        /\ \A a \in 1..Len(OutDevices) :
              LET i == OutDevices[a].id
                  d == OutDevices[a].e
              IN  /\ (Truthy(Get(d, "type")) /\ Get(d, "type") \notin DevTypeAllowed)
                        => (<<"D", "e", "v", "i", "c", "e", " ">> \o i \o <<" ", "h", "a", "s", " ", "i", "n", "v", "a", "l", "i", "d", " ", "t", "y", "p", "e", ":", " ">> \o Get(d, "type")) \in Errors
                  /\ (Truthy(Get(d, "realization_type")) /\ Get(d, "realization_type") \notin RealizationAllowed)
                        => (<<"D", "e", "v", "i", "c", "e", " ">> \o i \o <<" ", "h", "a", "s", " ", "i", "n", "v", "a", "l", "i", "d", " ", "r", "e", "a", "l", "i", "z", "a", "t", "i", "o", "n", "_", "t", "y", "p", "e", ":", " ">> \o Get(d, "realization_type")) \in Errors
        /\ \A a \in 1..Len(OutKbs) :
              LET i == OutKbs[a].id
                  st == Get(OutKbs[a].e, "status")
              IN  (Truthy(st) /\ st \notin StatusAllowed)
                        => /\ (<<"K", "B", " ", "s", "e", "r", "v", "i", "c", "e", " ">> \o i \o <<" ", "h", "a", "s", " ", "u", "n", "e", "x", "p", "e", "c", "t", "e", "d", " ", "s", "t", "a", "t", "u", "s", ":", " ">> \o st) \in Warnings
                           /\ ~HasEntry(Errors, <<"K", "B", " ", "s", "e", "r", "v", "i", "c", "e", " ">> \o i)

\* field k of every entity of d is absent (None) or a member of `allowed`
InDomain(d, k, allowed) ==
    \A a \in 1..Len(d) : Truthy(Get(d[a].e, k)) => Get(d[a].e, k) \in allowed

\* C16: after a tabular-to-document conversion every stored Network.type,
\* NetworkDevice.type, NetworkDevice.realization_type and KBService.status is
\* a member of its declared domain.
C16_DomainClosure ==
    pc = "validated" =>
        /\ InDomain(OutNetworks, "type", NetworkTypes)
        /\ InDomain(OutDevices, "type", DevTypeAllowed)
        /\ InDomain(OutDevices, "realization_type", RealizationAllowed)
        /\ InDomain(OutKbs, "status", StatusAllowed)

-----------------------------------------------------------------------------
(* validate_refs and validate_enums on output directories of any content *)

\* the largest number of fragments of a directory that are damaged
MaxDamaged == 1

\* a well-formed directory: references that resolve, references that dangle,
\* and entities that lack optional fields
FnNetworksDc1 == <<"n", "e", "t", "w", "o", "r", "k", "s", "_", "o", "r", "g", "_", "d", "c", "1", ".", "y", "a", "m", "l">>
WellFormedDir ==
    (FnRegion :> [key |-> "seaf.ta.services.dc_region",
                  ents |-> <<[id |-> <<"o", "r", "g", ".", "r", "e", "g", "i", "o", "n", ".", "m", "s", "k">>, e |-> [title |-> <<"M", "o", "s", "c", "o", "w">>]]>>])
    @@ (FnAz :> [key |-> "seaf.ta.services.dc_az",
                 ents |-> <<[id |-> <<"o", "r", "g", ".", "a", "z", ".", "1">>, e |-> [region |-> <<"o", "r", "g", ".", "r", "e", "g", "i", "o", "n", ".", "m", "s", "k">>]],
                            [id |-> <<"o", "r", "g", ".", "a", "z", ".", "2">>, e |-> [title |-> <<"Z", "o", "n", "e">>]]>>])
    @@ (FnDc :> [key |-> "seaf.ta.services.dc",
                 ents |-> <<[id |-> Org1, e |-> [availabilityzone |-> <<"o", "r", "g", ".", "a", "z", ".", "9">>]]>>])
    @@ (FnOffice :> [key |-> "seaf.ta.services.office",
                     ents |-> <<[id |-> <<"o", "r", "g", ".", "o", "f", "f", "i", "c", "e", ".", "m", "s", "k">>, e |-> [region |-> <<"o", "r", "g", ".", "r", "e", "g", "i", "o", "n", ".", "m", "s", "k">>]]>>])
    @@ (FnSegment :> [key |-> "seaf.ta.services.network_segment",
                      ents |-> <<[id |-> SegX, e |-> [sber |-> [location |-> Org1]]],
                                 [id |-> SegY, e |-> [title |-> <<"B", "a", "c", "k">>]]>>])
    @@ (FnNetworksDc1 :> [key |-> "seaf.ta.services.network",
                          ents |-> <<[id |-> NetA, e |-> [type |-> <<"L", "A", "N">>, segment |-> <<SegX>>,
                                                          location |-> <<Org1, Org2>>]],
                                     [id |-> <<"o", "r", "g", ".", "n", "e", "t", ".", "p", "l", "a", "i", "n">>, e |-> [title |-> <<"P", "l", "a", "i", "n">>]]>>])
    @@ (FnComponentsNetwork :> [key |-> "seaf.ta.components.network",
                                ents |-> <<[id |-> Dev17, e |-> [segment |-> <<"o", "r", "g", ".", "s", "e", "g", ".", "z">>, type |-> <<"L", "3">>]],
                                           [id |-> Dev18, e |-> [title |-> <<"S", "w", "i", "t", "c", "h">>]]>>])
    @@ (FnKb :> [key |-> "seaf.ta.services.kb",
                 ents |-> <<[id |-> <<"o", "r", "g", ".", "k", "b", ".", "f", "w">>, e |-> [network_connection |-> <<NetB>>,
                                                         status |-> <<"a", "c", "t", "i", "v", "e">>]]>>])

\* the key each fragment holds
FragmentKey ==
    (FnRegion :> "seaf.ta.services.dc_region") @@ (FnAz :> "seaf.ta.services.dc_az")
    @@ (FnDc :> "seaf.ta.services.dc") @@ (FnOffice :> "seaf.ta.services.office")
    @@ (FnSegment :> "seaf.ta.services.network_segment")
    @@ (FnNetworksDc1 :> "seaf.ta.services.network")
    @@ (FnComponentsNetwork :> "seaf.ta.components.network") @@ (FnKb :> "seaf.ta.services.kb")

\* a fragment missing, empty, unparsable, or with null under its key
DamageKinds == {"absent", "empty", "malformed", "null"}
Damage(dir, fn, kind) ==
    CASE kind = "absent" -> [n \in DOMAIN dir \ {fn} |-> dir[n]]
      [] kind = "empty" -> (fn :> [empty |-> TRUE]) @@ dir
      [] kind = "malformed" -> (fn :> [malformed |-> TRUE]) @@ dir
      [] kind = "null" -> (fn :> [key |-> FragmentKey[fn], null |-> TRUE]) @@ dir

RECURSIVE DamagedDirs(_)
DamagedDirs(n) ==
    IF n = 0 THEN {WellFormedDir, <<>>}
    ELSE DamagedDirs(n - 1)
         \cup {Damage(d, fn, k) : d \in DamagedDirs(n - 1), fn \in DOMAIN FragmentKey, k \in DamageKinds}

InitValidate ==
    /\ pc = "validate" /\ out_dir \in DamagedDirs(MaxDamaged)
    /\ report = <<>> /\ inputs = <<>> /\ fidx = 1 /\ processed = TRUE
    /\ src_counts = <<>> /\ dst_counts = <<>> /\ stderr = <<>> /\ exit_code = "running"
    /\ run = 1 /\ doc_first = <<>> /\ xlsx_out = <<>>
    /\ net_id = NoneV /\ derived = NoneV
    /\ svc_val = NoneV /\ svc_cell = NoneV /\ svc_type = NoneV

\* lines 670-671: report = validate_refs(out_dir); validate_enums(out_dir, report)
Validate ==
    /\ pc = "validate"
    /\ report' = validate_enums(out_dir, validate_refs(out_dir))
    /\ pc' = "validated"
    /\ UNCHANGED <<inputs, fidx, out_dir, processed, src_counts, dst_counts, stderr, exit_code,
                   run, doc_first, xlsx_out, net_id, derived, svc_val, svc_cell, svc_type>>

NextValidate == Validate
SpecValidate == InitValidate /\ [][NextValidate]_vars

\* a fragment of the directory stops validate_refs / validate_enums half-way
RefsFail(dir) ==
    \E fn \in DOMAIN dir :
        /\ fn \in DOMAIN FragmentKey
        /\ "malformed" \in DOMAIN dir[fn] \/ "null" \in DOMAIN dir[fn]
EnumsFail(dir) ==
    \E fn \in DOMAIN dir :
        /\ fn \in {FnNetworksDc1, FnComponentsNetwork, FnKb}
        /\ "malformed" \in DOMAIN dir[fn] \/ "null" \in DOMAIN dir[fn]

IsList(l) == DOMAIN l = 1..Len(l)

\* C17: whatever the output directory holds, validate_refs followed by
\* validate_enums yields a report with an errors list and a warnings list, and
\* a failure inside either validator is itself an entry of errors.
C17_NeverRaises ==
    pc = "validated" =>
        /\ DOMAIN report = {"errors", "warnings"}
        /\ IsList(report.errors) /\ IsList(report.warnings)
        /\ RefsFail(out_dir) => ValidationFailed \in SeqToSet(report.errors)
        /\ EnumsFail(out_dir) => EnumValidationFailed \in SeqToSet(report.errors)

\* C17: the fragment of KB services holds null: validate_refs fails after its
\* first loops, validate_enums after its loops over networks and devices, and
\* the report keeps the entries made before each failure
C17_Witness ==
    /\ pc = "validated" /\ NullKey(out_dir, FnKb)
    /\ ValidationFailed \in Errors /\ EnumValidationFailed \in Errors
    /\ (<<"D", "C", " ", "o", "r", "g", ".", "d", "c", ".", "1", " ", "r", "e", "f", "s", " ", "m", "i", "s", "s", "i", "n", "g", " ", "A", "Z", " ", "o", "r", "g", ".", "a", "z", ".", "9">>) \in Errors
    /\ (<<"D", "e", "v", "i", "c", "e", " ", "o", "r", "g", ".", "n", "e", "t", "d", "e", "v", ".", "1", "7", " ", "h", "a", "s", " ", "i", "n", "v", "a", "l", "i", "d", " ", "t", "y", "p", "e", ":", " ", "L", "3">>) \in Errors

-----------------------------------------------------------------------------
(* The exit status of a run *)

\* the run wrote at least one entity
ProducedEntities(dir) ==
    \E fn \in DOMAIN dir : "ents" \in DOMAIN dir[fn] /\ dir[fn].ents # <<>>

\* C18: a run that produces no entity ends with exit code 1, and a run that
\* produces at least one entity ends with exit code 0, with or without
\* validation errors.
C18_ExitStatus ==
    pc \in {"exit", "converted", "validated"} =>
        /\ ~ProducedEntities(out_dir) => exit_code = 1
        /\ ProducedEntities(out_dir) => exit_code = 0

-----------------------------------------------------------------------------
(* A workbook whose conversion raises *)

\* the conversion of workbook f ended in the except clause of main()
ConversionFailed(f) ==
    \E i \in 1..Len(stderr) :
        /\ stderr[i].level = "ERROR" /\ stderr[i].msg = "exception" /\ stderr[i].file = f

\* what workbook g writes when it is converted on its own
WrittenAlone(g) == Seaf2ConvertBook(inputs[g].sheets, <<>>)

\* every entity workbook g writes is in the output directory
StillInOutput(g) ==
    \A fn \in DOMAIN WrittenAlone(g) :
        /\ fn \in DOMAIN out_dir
        /\ DictIds(WrittenAlone(g)[fn].ents) \subseteq DictIds(out_dir[fn].ents)

\* C19: when the conversion of one workbook fails with an exception, the run
\* goes on: the entities of the workbooks before it stay in the output, the
\* workbooks after it are converted, and the run reaches its report instead
\* of the hard failure.
C19_PartialSuccess ==
    \A f \in 1..Len(inputs) :
        (run = 1 /\ fidx > Len(inputs) /\ ConversionFailed(f)) =>
            /\ pc # "exit"
            /\ \A g \in 1..Len(inputs) : (g # f /\ inputs[g].exists) => StillInOutput(g)

-----------------------------------------------------------------------------
(* yaml_to_xlsx.py: the flat document written as workbooks, and the round   *)
(* trip of tests/run_tests.py: yaml_to_xlsx.py, xlsx_to_yaml.py on its      *)
(* workbooks, yaml_to_xlsx.py on the document written, then the comparison  *)

\* save_regions_az_dc_offices(ydir, writer) of yaml_to_xlsx.py
seaf1_save_regions_az_dc_offices(dir, sheets) ==
    LET s1 == AddSheet(sheets, SheetRegions,
                 RowsOf(ReadKey(dir, FnRegion, "seaf.ta.services.dc_region"), Y2xRegionRow))
        s2 == AddSheet(s1, SheetAZ,
                 RowsOf(ReadKey(dir, FnAz, "seaf.ta.services.dc_az"), Y2xAzRow))
        s3 == AddSheet(s2, SheetDC,
                 RowsOf(ReadKey(dir, FnDc, "seaf.ta.services.dc"), Y2xDcRow))
    IN  AddSheet(s3, SheetOffices,
                 RowsOf(ReadKey(dir, FnOffice, "seaf.ta.services.office"), Y2xOfficeRow))

\* save_segments_nets_devices(ydir, writer) of yaml_to_xlsx.py: the segments
\* and the networks of networks_*.yaml; no sheet of devices is written
seaf1_save_segments_nets_devices(dir, sheets) ==
    LET segs == ReadKey(dir, FnSegment, "seaf.ta.services.network_segment")
        nets == GlobUpdate(dir, {n \in DOMAIN dir : /\ StartsWith(n, FnNetworksPrefix)
                                                   /\ EndsWith(n, YamlSuffix)},
                           "seaf.ta.services.network")
        s1 == AddSheet(sheets, SheetSegments, RowsOf(segs, Y2xSegmentRow))
    IN  AddSheet(s1, SheetNetworks, RowsOf(nets, Y2xNetworkRow))

\* save_kb_services(ydir, writer) of yaml_to_xlsx.py
seaf1_save_kb_services(dir, sheets) ==
    AddSheet(sheets, SheetKB, RowsOf(ReadKey(dir, FnKb, "seaf.ta.services.kb"), Y2xKbRow))

\* cfg['xlsx_files'] of the three runs of tests/run_tests.py
TestFiles == SubSeq(Y2xFiles, 1, 3)

\* lines 230-242 of yaml_to_xlsx.py: the workbook written under one file name
\* (none of the names of TestFiles has 'tech', 'comp' or 'link' in it)
seaf1_workbook(dir, fname) ==
    LET name == Lower(fname)
        s1 == IF Contains(name, <<"r", "e", "g">>) THEN seaf1_save_regions_az_dc_offices(dir, <<>>) ELSE <<>>
        s2 == IF Contains(name, <<"s", "e", "g">>) THEN seaf1_save_segments_nets_devices(dir, s1) ELSE s1
        s3 == IF Contains(name, <<"k", "b">>) THEN seaf1_save_kb_services(dir, s2) ELSE s2
    IN  [exists |-> TRUE, sheets |-> Y2xIfEmpty(s3)]

\* main() of yaml_to_xlsx.py: one workbook per configured name
seaf1_yaml_to_xlsx(dir) == [i \in 1..Len(TestFiles) |-> seaf1_workbook(dir, TestFiles[i])]

\* df.columns[0]: the first key of the row dicts of a sheet
FirstColumn ==
    (SheetRegions :> "ID Regiona") @@ (SheetAZ :> "ID AZ") @@ (SheetDC :> "ID DC")
    @@ (SheetOffices :> "ID Ofisa") @@ (SheetSegments :> "ID setevye segmenta/zony")
    @@ (SheetNetworks :> "ID Network") @@ (SheetKB :> "ID KB servisa")
    @@ ("Empty" :> "Unnamed: 0")

\* xls.parse(sheet_name).fillna('')
FillNa(rows) ==
    [i \in 1..Len(rows) |-> [c \in DOMAIN rows[i] |-> IF rows[i][c] = NaN THEN <<>> ELSE rows[i][c]]]

\* df.sort_values(by=first_col).reset_index(drop=True); the ids of a sheet
\* are the keys of one dict, so no two rows have the same
sort_values(rows, col) ==
    LET keys == Sorted([i \in 1..Len(rows) |-> rows[i][col]])
    IN  [i \in 1..Len(rows) |->
            CHOOSE r \in {rows[j] : j \in 1..Len(rows)} : r[col] = keys[i]]

\* lines 60-69: the sheets of one pair of workbooks whose content differs
SheetDiffs(f, initial, final) ==
    {[file |-> f, sheet |-> sn, diff |-> "Sheet content differs"] :
        sn \in {n \in DOMAIN initial :
                   sort_values(FillNa(initial[n]), FirstColumn[n])
                       # sort_values(FillNa(final[n]), FirstColumn[n])}}

\* compare_xlsx_files(initial_dir, final_dir): both directories hold the
\* workbooks of the same xlsx_files, so the names agree pair by pair
compare_xlsx_files(initial, final) ==
    IF Len(initial) # Len(final)
    THEN {[file |-> 0, sheet |-> "", diff |-> "file_count_mismatch"]}
    ELSE UNION {IF DOMAIN initial[f].sheets # DOMAIN final[f].sheets
                THEN {[file |-> f, sheet |-> "", diff |-> "Sheet names differ"]}
                ELSE SheetDiffs(f, initial[f].sheets, final[f].sheets) : f \in 1..Len(initial)}

\* Source documents written by hand, as those of example/seaf1: a fragment of
\* regions, fragments of segments and networks, a fragment of KB services
SrcRegions ==
    { <<>>,
      FnRegion :> [key |-> "seaf.ta.services.dc_region",
                   ents |-> <<[id |-> <<"o", "r", "g", ".", "r", "e", "g", "i", "o", "n", ".", "m", "s", "k">>, e |-> [title |-> <<"M", "o", "s", "c", "o", "w">>, description |-> <<"C", "e", "n", "t", "r", "a", "l", " ", "r", "e", "g", "i", "o", "n">>]]>>],
      FnRegion :> [key |-> "seaf.ta.services.dc_region",
                   ents |-> <<[id |-> <<"o", "r", "g", ".", "r", "e", "g", "i", "o", "n", ".", "m", "s", "k">>, e |-> [title |-> <<"M", "o", "s", "c", "o", "w">>, description |-> <<"C", "e", "n", "t", "r", "a", "l", " ", " ", "r", "e", "g", "i", "o", "n">>]]>>] }
SrcSegment ==
    FnSegment :> [key |-> "seaf.ta.services.network_segment",
                  ents |-> <<[id |-> SegX, e |-> [title |-> <<"F", "r", "o", "n", "t">>, description |-> <<"E", "d", "g", "e">>,
                                                  sber |-> [location |-> Org1, zone |-> <<"D", "M", "Z">>]]]>>]
SrcNetwork(e) == FnNetworksDc1 :> [key |-> "seaf.ta.services.network", ents |-> <<[id |-> NetA, e |-> e]>>]
SrcNetworks ==
    { <<>>,
      SrcSegment @@ SrcNetwork([title |-> <<"U", "s", "e", "r", "s">>, type |-> <<"L", "A", "N">>, vlan |-> <<"int", "1", "0">>,
                                ipnetwork |-> <<"1", "0", ".", "0", ".", "0", ".", "0", "/", "2", "4">>, location |-> <<Org1>>, segment |-> <<SegX>>]),
      SrcSegment @@ SrcNetwork([title |-> <<"U", "s", "e", "r", "s">>, type |-> <<"L", "A", "N">>, vlan |-> <<"int", "1", "0">>,
                                ipnetwork |-> <<"1", "0", ".", "0", ".", "0", ".", "0", "/", "2", "4">>, location |-> <<Org1, Org2>>, segment |-> <<SegX>>]),
      SrcSegment @@ SrcNetwork([title |-> <<"U", "p", "l", "i", "n", "k">>, type |-> <<"W", "A", "N">>, vlan |-> <<"int", "1", "0">>,
                                wan_ip |-> <<"1", "9", "2", ".", "0", ".", "2", ".", "1">>, location |-> <<Org1>>, segment |-> <<SegX>>]) }
SrcKbs ==
    { <<>>,
      FnKb :> [key |-> "seaf.ta.services.kb",
               ents |-> <<[id |-> <<"o", "r", "g", ".", "k", "b", ".", "f", "w">>, e |-> [tag |-> <<"f", "w">>, description |-> <<"F", "i", "r", "e", "w", "a", "l", "l">>,
                                                      status |-> <<"a", "c", "t", "i", "v", "e">>, network_connection |-> <<NetA>>]]>>] }
SourceDocs == {r @@ n @@ k : r \in SrcRegions, n \in SrcNetworks, k \in SrcKbs}

\* the source document is written by hand, or a first run of main() of
\* xlsx_to_yaml.py on the input workbooks writes it
InitFixed ==
    \/ InitSeaf1
    \/ /\ pc = "source" /\ out_dir \in SourceDocs /\ inputs = <<>> /\ fidx = 1
       /\ processed = FALSE /\ src_counts = <<>> /\ dst_counts = <<>> /\ stderr = <<>>
       /\ exit_code = "running" /\ run = 1 /\ doc_first = <<>> /\ xlsx_out = <<>>
       /\ report = <<>> /\ svc_val = NoneV /\ svc_cell = NoneV /\ svc_type = NoneV /\ net_id = NoneV /\ derived = NoneV

\* step 1 of run_tests.py: the source document written as the initial workbooks,
\* which step 2, main() of xlsx_to_yaml.py, is configured to read
FxInitial ==
    /\ \/ pc = "source"
       \/ pc = "validated" /\ run = 1
    /\ doc_first' = out_dir
    /\ inputs' = seaf1_yaml_to_xlsx(out_dir)
    /\ run' = 2
    /\ pc' = "start"
    /\ exit_code' = "running"
    /\ UNCHANGED <<fidx, out_dir, processed, src_counts, dst_counts, stderr,
                   xlsx_out, report, net_id, svc_val, svc_cell, svc_type, derived>>

\* step 3 of run_tests.py: the round-trip document written as the final workbooks
FxFinal ==
    /\ pc = "validated" /\ run = 2
    /\ xlsx_out' = seaf1_yaml_to_xlsx(out_dir)
    /\ pc' = "written"
    /\ UNCHANGED <<inputs, fidx, out_dir, processed, src_counts, dst_counts, stderr, exit_code,
                   run, doc_first, report, net_id, svc_val, svc_cell, svc_type, derived>>

\* step 4 of run_tests.py: the comparison of the two sets of workbooks
FxCompare ==
    /\ pc = "written"
    /\ report' = compare_xlsx_files(inputs, xlsx_out)
    /\ pc' = "compared"
    /\ UNCHANGED <<inputs, fidx, out_dir, processed, src_counts, dst_counts, stderr, exit_code,
                   run, doc_first, xlsx_out, net_id, svc_val, svc_cell, svc_type, derived>>

\* steps 1 to 4 of run_tests.py, after the run of main() that writes a source document
NextFixed ==
    F1Start \/ F1Missing \/ F1Convert \/ F1Fail \/ F1Finish \/ FxInitial \/ FxFinal \/ FxCompare

SpecFixed == InitFixed /\ [][NextFixed]_vars

\* C20: for every flat document D, the workbooks X1 written from D and the
\* workbooks X2 written from the document xlsx_to_yaml.py makes of X1 have the
\* same sheets, and every sheet has the same rows, cell for cell, once both
\* are sorted by their first column: the comparison finds no difference.
C20_TabularFixedPoint ==
    pc = "compared" => report = {}

-----------------------------------------------------------------------------
(* tests/seaf1_to_seaf2.py: a directory of one generation translated into   *)
(* the other, and ENTITY_MAP of the two document readers                    *)

\* ENTITY_MAP of yaml_to_xlsx.py: entity type -> the key the flat reader looks up
FlatEntityMap ==
    [t \in {"dc_region", "dc_az", "dc", "office", "network_segment", "network", "kb",
            "compute_service", "cluster", "monitoring", "backup", "software", "storage",
            "cluster_virtualization", "k8s", "k8s_deployment", "logical_link",
            "network_link", "stand", "environment"} |-> "seaf.ta.services." \o t]
    @@ ("components.network" :> "seaf.ta.components.network")
    @@ [t \in {"server", "hw_storage", "user_device", "k8s_node", "k8s_namespace", "k8s_hpa"} |->
            "seaf.ta.components." \o t]

\* ENTITY_MAP of _seaf2_yaml_to_xlsx.py: entity type -> the key the company-scoped reader looks up
Seaf2EntityMap ==
    [t \in {"dc_region", "dc_az", "dc", "network_segment", "network", "kb",
            "compute_service", "cluster", "monitoring", "backup", "software", "storage",
            "cluster_virtualization", "k8s_deployment", "logical_link",
            "network_link", "stand", "environment"} |-> "seaf.company.ta.services." \o t \o "s"]
    @@ ("office" :> "seaf.company.ta.services.dc_offices")
    @@ ("k8s" :> "seaf.company.ta.services.k8s")
    @@ ("components.network" :> "seaf.company.ta.components.networks")
    @@ [t \in {"server", "hw_storage", "user_device", "k8s_node", "k8s_namespace"} |->
            "seaf.company.ta.components." \o t \o "s"]
    @@ ("k8s_hpa" :> "seaf.company.ta.components.k8s_hpa")

\* namespace_mappings of convert_seaf1_to_seaf2
NamespaceToSeaf2 ==
    ("seaf.ta.services.dc_region" :> "seaf.company.ta.services.dc_regions")
    @@ ("seaf.ta.services.dc_az" :> "seaf.company.ta.services.dc_azs")
    @@ ("seaf.ta.services.dc" :> "seaf.company.ta.services.dcs")
    @@ ("seaf.ta.services.office" :> "seaf.company.ta.services.dc_offices")
    @@ ("seaf.ta.services.network_segment" :> "seaf.company.ta.services.network_segments")
    @@ ("seaf.ta.services.network" :> "seaf.company.ta.services.networks")
    @@ ("seaf.ta.services.kb" :> "seaf.company.ta.services.kbs")
    @@ ("seaf.ta.components.network" :> "seaf.company.ta.components.networks")

\* namespace_mappings of convert_seaf2_to_seaf1
NamespaceToSeaf1 ==
    ("seaf.company.ta.services.dc_regions" :> "seaf.ta.services.dc_region")
    @@ ("seaf.company.ta.services.dc_azs" :> "seaf.ta.services.dc_az")
    @@ ("seaf.company.ta.services.dcs" :> "seaf.ta.services.dc")
    @@ ("seaf.company.ta.services.dc_offices" :> "seaf.ta.services.office")
    @@ ("seaf.company.ta.services.network_segments" :> "seaf.ta.services.network_segment")
    @@ ("seaf.company.ta.services.networks" :> "seaf.ta.services.network")
    @@ ("seaf.company.ta.services.kbs" :> "seaf.ta.services.kb")
    @@ ("seaf.company.ta.components.networks" :> "seaf.ta.components.network")

\* file_mappings of the two functions
FilesToSeaf2 ==
    (FnComponentsNetwork :> FnNetComponent) @@ (FnOffice :> FnDcOffice) @@ (FnRootSeaf1 :> FnRootSeaf2)
FilesToSeaf1 ==
    (FnNetComponent :> FnComponentsNetwork) @@ (FnDcOffice :> FnOffice) @@ (FnRootSeaf2 :> FnRootSeaf1)

\* mapping.get(k, k)
GetOrSame(mapping, k) == IF k \in DOMAIN mapping THEN mapping[k] ELSE k

\* isinstance(data, dict): a fragment with a collection, or a manifest
IsDictData(frag) == "key" \in DOMAIN frag \/ "imports" \in DOMAIN frag

\* new_data: every key of the file through namespace_mappings, the values as they are
Renamed(frag, namespaces) ==
    IF "key" \in DOMAIN frag THEN [frag EXCEPT !.key = GetOrSame(namespaces, @)] ELSE frag

\* the loop over input_dir.glob('*.yaml'), taken in the order files: a name that
\* starts with '_' and a file that holds no dict are skipped, a later file
\* replaces an earlier one written under the same name
TranslateDir(dir, files, namespaces, fileNames) ==
    LET F[i \in 0..Len(files)] ==
            IF i = 0 THEN <<>>
            ELSE IF Head(files[i]) = "_" \/ ~IsDictData(dir[files[i]]) THEN F[i - 1]
            ELSE (GetOrSame(fileNames, files[i]) :> Renamed(dir[files[i]], namespaces)) @@ F[i - 1]
    IN  F[Len(files)]

\* convert_seaf2_to_seaf1 with the keys left as they are
convert_seaf2_to_seaf1_same_keys(dir, files) == TranslateDir(dir, files, <<>>, FilesToSeaf1)

\* convert_seaf1_to_seaf2(input_dir, output_dir), output_dir empty before
convert_seaf1_to_seaf2(dir, files) == TranslateDir(dir, files, NamespaceToSeaf2, FilesToSeaf2)

\* convert_seaf2_to_seaf1(input_dir, output_dir), output_dir empty before
convert_seaf2_to_seaf1(dir, files) == TranslateDir(dir, files, NamespaceToSeaf1, FilesToSeaf1)

\* the orders glob may list a directory in: no order is promised
GlobOrders(dir) ==
    LET up == SortedNames(DOMAIN dir)
    IN  {up, [i \in 1..Len(up) |-> up[Len(up) + 1 - i]]}

\* Directories to translate: at most MaxFiles fragments of a directory that has
\* one fragment of each group of the catalog and a file without content, and
\* the manifest the converter of the generation writes for them
MaxFiles == 2
FnLink == <<"l", "o", "g", "i", "c", "a", "l", "_", "l", "i", "n", "k", ".", "y", "a", "m", "l">>
FnStand == <<"s", "t", "a", "n", "d", ".", "y", "a", "m", "l">>
FnServer == <<"s", "e", "r", "v", "e", "r", ".", "y", "a", "m", "l">>
FnNotes == <<"n", "o", "t", "e", "s", ".", "y", "a", "m", "l">>
CatalogDir ==
    WellFormedDir
    @@ (FnCompute :> [key |-> "seaf.ta.services.compute_service",
                      ents |-> <<[id |-> SvcDb1, e |-> [title |-> <<"D", "a", "t", "a", "b", "a", "s", "e">>, network_connection |-> <<NetA>>]]>>])
    @@ (FnLink :> [key |-> "seaf.ta.services.logical_link",
                   ents |-> <<[id |-> <<"o", "r", "g", ".", "l", "i", "n", "k", ".", "1">>, e |-> [source |-> SvcDb1, target |-> <<SvcApp>>]]>>])
    @@ (FnStand :> [key |-> "seaf.ta.services.stand",
                    ents |-> <<[id |-> <<"o", "r", "g", ".", "s", "t", "a", "n", "d", ".", "t", "e", "s", "t">>, e |-> [title |-> <<"T", "e", "s", "t">>]]>>])
    @@ (FnServer :> [key |-> "seaf.ta.components.server",
                     ents |-> <<[id |-> <<"o", "r", "g", ".", "s", "e", "r", "v", "e", "r", ".", "1">>, e |-> [title |-> <<"R", "a", "c", "k", " ", "s", "e", "r", "v", "e", "r">>, location |-> <<Org1>>]]>>])
    @@ (FnNotes :> [empty |-> TRUE])

\* the entity type of a flat collection key
TypeOfFlatKey(k) == CHOOSE t \in DOMAIN FlatEntityMap : FlatEntityMap[t] = k

\* the same directory as the company-scoped converter names and keys it
Seaf2CatalogDir ==
    [n \in {GetOrSame(FilesToSeaf2, m) : m \in DOMAIN CatalogDir} |->
        LET m == CHOOSE x \in DOMAIN CatalogDir : GetOrSame(FilesToSeaf2, x) = n
        IN  IF "key" \in DOMAIN CatalogDir[m]
            THEN [CatalogDir[m] EXCEPT !.key = Seaf2EntityMap[TypeOfFlatKey(@)]]
            ELSE CatalogDir[m]]

Restrict(dir, names) == [n \in names |-> dir[n]]
SmallSubsets(S) == {T \in SUBSET S : Cardinality(T) <= MaxFiles}
FlatDirs == {write_root(Restrict(CatalogDir, T)) : T \in SmallSubsets(DOMAIN CatalogDir)}
Seaf2Dirs == {seaf2_write_root(Restrict(Seaf2CatalogDir, T)) : T \in SmallSubsets(DOMAIN Seaf2CatalogDir)}

\* doc_first is the directory to translate, out_dir the directory written last
InitNs ==
    /\ \/ pc = "seaf1" /\ doc_first \in FlatDirs
       \/ pc = "seaf2" /\ doc_first \in Seaf2Dirs
    /\ out_dir = <<>> /\ inputs = <<>> /\ fidx = 1
    /\ processed = FALSE /\ src_counts = <<>> /\ dst_counts = <<>> /\ stderr = <<>>
    /\ exit_code = "running" /\ run = 1 /\ xlsx_out = <<>>
    /\ report = <<>> /\ svc_val = NoneV /\ svc_cell = NoneV /\ svc_type = NoneV /\ net_id = NoneV /\ derived = NoneV

\* seaf1-to-seaf2: of the directory given, or of the directory seaf2-to-seaf1 wrote
ConvertSeaf1ToSeaf2 ==
    /\ \/ /\ pc = "seaf1"
          /\ \E files \in GlobOrders(doc_first) : out_dir' = convert_seaf1_to_seaf2(doc_first, files)
          /\ pc' = "seaf1_seaf2"
       \/ /\ pc = "seaf2_seaf1"
          /\ \E files \in GlobOrders(out_dir) : out_dir' = convert_seaf1_to_seaf2(out_dir, files)
          /\ pc' = "seaf2_back"
    /\ UNCHANGED <<inputs, fidx, processed, src_counts, dst_counts, stderr, exit_code, run,
                   doc_first, xlsx_out, report, net_id, svc_val, svc_cell, svc_type, derived>>

\* seaf2-to-seaf1: of the directory given, or of the directory seaf1-to-seaf2 wrote
ConvertSeaf2ToSeaf1 ==
    /\ \/ /\ pc = "seaf2"
          /\ \E files \in GlobOrders(doc_first) : out_dir' = convert_seaf2_to_seaf1(doc_first, files)
          /\ pc' = "seaf2_seaf1"
       \/ /\ pc = "seaf1_seaf2"
          /\ \E files \in GlobOrders(out_dir) : out_dir' = convert_seaf2_to_seaf1(out_dir, files)
          /\ pc' = "seaf1_back"
    /\ UNCHANGED <<inputs, fidx, processed, src_counts, dst_counts, stderr, exit_code, run,
                   doc_first, xlsx_out, report, net_id, svc_val, svc_cell, svc_type, derived>>

NextNs == ConvertSeaf1ToSeaf2 \/ ConvertSeaf2ToSeaf1

SpecNs == InitNs /\ [][NextNs]_vars

\* a collection as yaml.safe_load gives it: a mapping of id to entity
AsMap(d) == [k \in DictIds(d) |-> DictVal(d, k)]

\* the fragments of a directory that hold a collection
Collections(dir) == {n \in DOMAIN dir : "key" \in DOMAIN dir[n]}

\* C21: after the two translations, in either order, every fragment of the
\* directory that holds a collection is in the output with the same collection
\* key and, under it, the same entity ids with the same fields.
C21_TranslationSymmetric ==
    pc \in {"seaf1_back", "seaf2_back"} =>
        \A n \in Collections(doc_first) :
            \E m \in Collections(out_dir) :
                /\ out_dir[m].key = doc_first[n].key
                /\ AsMap(out_dir[m].ents) = AsMap(doc_first[n].ents)

\* C21: a flat directory and a company-scoped directory whose keys the tables
\* rename have both gone through the two translations
C21_Witness ==
    /\ pc \in {"seaf1_back", "seaf2_back"}
    /\ \E n \in Collections(doc_first) :
           doc_first[n].key \in DOMAIN NamespaceToSeaf2 \cup DOMAIN NamespaceToSeaf1

\* C22: for every entity type of the catalog, a fragment under the key one
\* reader looks the type up by is, after the translation, under the key the
\* reader of the other generation looks it up by.
C22_CatalogCovered ==
    /\ pc = "seaf1_seaf2" =>
          \A t \in DOMAIN FlatEntityMap : \A n \in Collections(doc_first) :
              doc_first[n].key = FlatEntityMap[t] =>
                  \E m \in Collections(out_dir) : out_dir[m].key = Seaf2EntityMap[t]
    /\ pc = "seaf2_seaf1" =>
          \A t \in DOMAIN Seaf2EntityMap : \A n \in Collections(doc_first) :
              doc_first[n].key = Seaf2EntityMap[t] =>
                  \E m \in Collections(out_dir) : out_dir[m].key = FlatEntityMap[t]

\* the manifests of a directory
Manifests(dir) == {n \in DOMAIN dir : "imports" \in DOMAIN dir[n]}

\* C30: after one translation of a directory that has a manifest, the output
\* has a manifest, and every name a manifest of the output lists is the name
\* of a file of the output.
C30_ManifestConsistent ==
    (pc \in {"seaf1_seaf2", "seaf2_seaf1"} /\ Manifests(doc_first) # {}) =>
        /\ Manifests(out_dir) # {}
        /\ \A r \in Manifests(out_dir) : SeqToSet(out_dir[r].imports) \subseteq DOMAIN out_dir

-----------------------------------------------------------------------------
(* The order of a produced collection against the order of the rows *)

\* the ids of the rows of a sheet that carry one, each at its first row
AcceptedIds(xls, sheet, col) ==
    IF ~HasSheet(xls, sheet) THEN <<>>
    ELSE LET rows == non_empty_rows(xls[sheet])
             F[i \in 0..Len(rows)] ==
                 IF i = 0 THEN <<>>
                 ELSE LET id == seaf1_id_clean(Get(rows[i].row, col))
                      IN  IF id = NoneV \/ id \in SeqToSet(F[i - 1]) THEN F[i - 1]
                          ELSE Append(F[i - 1], id)
         IN  F[Len(rows)]

\* C23: after a run of xlsx_to_yaml.py over one workbook, the ids of the
\* segment collection and of the network collection, the network shards read
\* together in the order validate_refs reads them, are the ids of the rows of
\* the sheet that carry one, in row order.
C23_RowOrderKept ==
    (pc = "validated" /\ Len(inputs) = 1) =>
        /\ DictKeys(ReadKey(out_dir, FnSegment, "seaf.ta.services.network_segment"))
               = AcceptedIds(inputs[1].sheets, SheetSegments, "ID setevye segmenta/zony")
        /\ DictKeys(FlatLoadNetworks(out_dir))
               = AcceptedIds(inputs[1].sheets, SheetNetworks, "ID Network")

-----------------------------------------------------------------------------
(* The shards of one sheet of networks against the converted collection *)

\* nets as convert_segments_nets_devices hands it to write_networks_per_location
FlatConvertedNets(xls, file) ==
    LET segst == FlatSegments(xls, file, <<>>)
        netst == FlatNetworks(xls, file, segst.err)
    IN  AutoCreateFromNetworks(segst.d, netst.d, netst.proc).nets

\* the network shards of a directory
NetworkShards(dir) == {n \in DOMAIN dir : StartsWith(n, FnNetworksPrefix) /\ EndsWith(n, YamlSuffix)}

\* C24: after xlsx_to_yaml.py has written the networks of the one workbook of
\* a run, every converted network is in a shard, a network is in
\* networks_misc.yaml exactly when it has no location, and the shards read
\* together map the ids to the fields the converted collection maps them to.
C24_ShardsLoseNothing ==
    (pc = "validated" /\ Len(inputs) = 1 /\ HasSheet(inputs[1].sheets, SheetNetworks)) =>
        LET nets == FlatConvertedNets(inputs[1].sheets, 1)
            misc == ReadKey(out_dir, FnNetworksMisc, "seaf.ta.services.network")
        IN  /\ \A i \in 1..Len(nets) :
                   /\ \E n \in NetworkShards(out_dir) : nets[i].id \in DictIds(out_dir[n].ents)
                   /\ nets[i].id \in DictIds(misc) <=> GetList(nets[i].e, "location") = <<>>
            /\ AsMap(FlatLoadNetworks(out_dir)) = AsMap(nets)

-----------------------------------------------------------------------------
(* The two tokenisers of a cell that lists identifiers *)

\* the number of identifiers in a cell
MaxCellIds == 2

\* what stands between two identifiers of a cell
CellSeparators ==
    {<<";">>, <<",">>, <<"\n">>, <<",", " ">>, <<";", "\n">>, <<"\r", "\n">>}

\* the text of a cell: the identifiers with a separator between two of them
\* and, in a bullet list, '- ' at the start of every line
CellText(ids, seps, bullet) ==
    LET mark == IF bullet THEN <<"-", " ">> ELSE <<>>
        F[i \in 1..Len(ids)] ==
            IF i = 1 THEN mark \o ids[1]
            ELSE F[i - 1] \o seps[i - 1]
                 \o (IF seps[i - 1][Len(seps[i - 1])] = "\n" THEN mark ELSE <<>>) \o ids[i]
    IN  F[Len(ids)]

\* svc_cell is the cell, derived the identifiers written into it
InitTok ==
    /\ pc = "cell"
    /\ \E n \in 1..MaxCellIds : \E ids \in [1..n -> {NetA, NetB}] :
           \E seps \in [1..(n - 1) -> CellSeparators] : \E bullet \in BOOLEAN :
               /\ derived = ids
               /\ svc_cell = CellText(ids, seps, bullet)
    /\ out_dir = <<>> /\ inputs = <<>> /\ fidx = 1 /\ doc_first = <<>>
    /\ processed = FALSE /\ src_counts = <<>> /\ dst_counts = <<>> /\ stderr = <<>>
    /\ exit_code = "running" /\ run = 1 /\ xlsx_out = <<>>
    /\ report = <<>> /\ svc_val = NoneV /\ svc_type = NoneV /\ net_id = NoneV

\* the cell of Network.segment and of KBService.network_connection (lines 364
\* and 494), and every list of networks of _seaf2_xlsx_to_yaml.py
TokeniseMultiline ==
    /\ pc = "cell"
    /\ report' = parse_multiline_ids(svc_cell)
    /\ pc' = "multiline"
    /\ UNCHANGED <<inputs, fidx, out_dir, processed, src_counts, dst_counts, stderr, exit_code, run,
                   doc_first, xlsx_out, net_id, svc_val, svc_cell, svc_type, derived>>

\* the cell of NetworkDevice.network_connection in xlsx_to_yaml.py (line 461)
TokeniseList ==
    /\ pc = "cell"
    /\ report' = to_list(svc_cell)
    /\ pc' = "list"
    /\ UNCHANGED <<inputs, fidx, out_dir, processed, src_counts, dst_counts, stderr, exit_code, run,
                   doc_first, xlsx_out, net_id, svc_val, svc_cell, svc_type, derived>>

NextTok == TokeniseMultiline \/ TokeniseList

SpecTok == InitTok /\ [][NextTok]_vars

\* C25: a cell of identifiers separated by semicolons, commas or line breaks,
\* with or without '- ' before the identifier of a line, gives under either
\* tokeniser the identifiers one by one, in the order of the cell.
C25_OneTokenPerIdentifier == pc \in {"multiline", "list"} => report = derived

\* the part of C25 parse_multiline_ids keeps
C25_MultilineTokens == pc = "multiline" => report = derived

-----------------------------------------------------------------------------
(* A network row with the two columns of a field that has two names *)

\* a cell of a column: the column is not in the sheet, the cell is empty, or
\* the cell holds a value
AliasCells(v) == {<<"absent">>, NaN, v}

\* the column of a row, when the sheet has it
AliasColumn(col, cell) == IF cell = <<"absent">> THEN <<>> ELSE (col :> cell)

\* the value of the first of two columns that is in the row and not empty
FirstAlias(row, a, b, none) ==
    IF a \in DOMAIN row /\ row[a] # NaN THEN row[a]
    ELSE IF b \in DOMAIN row /\ row[b] # NaN THEN row[b]
    ELSE none

\* svc_val is the row of sheet 'Сети'
InitAlias ==
    /\ pc = "row"
    /\ \E v1 \in AliasCells(<<"v", "r", "f", "-", "a">>), v2 \in AliasCells(<<"v", "r", "f", "-", "b">>),
          s1 \in AliasCells(SegX), s2 \in AliasCells(SegY),
          l1 \in AliasCells(<<"w", "i", "r", "e", "d">>), l2 \in AliasCells(<<"w", "i", "r", "e", "l", "e", "s", "s">>) :
           svc_val = AliasColumn("VRF  ", v1) @@ AliasColumn("VRF", v2)
                     @@ AliasColumn("Setevoj segment/zona(ID)", s1) @@ AliasColumn("Setevoj segment/zona", s2)
                     @@ AliasColumn("Tip seti (provodnaya, besprovodnaya)", l1) @@ AliasColumn("Tip LAN", l2)
                     @@ ("ID Network" :> NetA) @@ ("Naimenovanie" :> <<"U", "s", "e", "r", "s">>) @@ ("Opisanie" :> NaN)
                     @@ ("Tip seti" :> <<"L", "A", "N">>) @@ ("VLAN" :> NaN) @@ ("Raspolozhenie" :> Org1)
                     @@ ("Adres seti" :> NaN) @@ ("Provajder" :> NaN)
    /\ out_dir = <<>> /\ inputs = <<>> /\ fidx = 1 /\ doc_first = <<>>
    /\ processed = FALSE /\ src_counts = <<>> /\ dst_counts = <<>> /\ stderr = <<>>
    /\ exit_code = "running" /\ run = 1 /\ xlsx_out = <<>> /\ derived = NoneV
    /\ report = <<>> /\ svc_cell = NoneV /\ svc_type = NoneV /\ net_id = NoneV

\* the entry xlsx_to_yaml.py makes of the row (lines 344-372)
AliasFlat ==
    /\ pc = "row"
    /\ report' = FlatNetworkEntity(svc_val, NetA)
    /\ pc' = "flat"
    /\ UNCHANGED <<inputs, fidx, out_dir, processed, src_counts, dst_counts, stderr, exit_code, run,
                   doc_first, xlsx_out, net_id, svc_val, svc_cell, svc_type, derived>>

\* the entry _seaf2_xlsx_to_yaml.py makes of the row (lines 217-228)
AliasSeaf2 ==
    /\ pc = "row"
    /\ report' = Seaf2NetworkEntry(svc_val)
    /\ pc' = "seaf2"
    /\ UNCHANGED <<inputs, fidx, out_dir, processed, src_counts, dst_counts, stderr, exit_code, run,
                   doc_first, xlsx_out, net_id, svc_val, svc_cell, svc_type, derived>>

NextAlias == AliasFlat \/ AliasSeaf2

SpecAlias == InitAlias /\ [][NextAlias]_vars

\* the three fields of the entry as the first column that holds a value gives them
AliasFieldsTaken ==
    /\ Get(report, "VRF") = FirstAlias(svc_val, "VRF  ", "VRF", NoneV)
    /\ GetList(report, "segment")
           = LET id == FirstAlias(svc_val, "Setevoj segment/zona(ID)", "Setevoj segment/zona", NoneV)
             IN  IF id = NoneV THEN <<>> ELSE <<id>>
    /\ Get(report, "lan_type")
           = FirstAlias(svc_val, "Tip seti (provodnaya, besprovodnaya)", "Tip LAN", NoneV)

\* C26: in both converters the VRF, the segment and the LAN type of a network
\* are the value of the first of the two columns that is in the sheet and not
\* empty; an empty first column does not hide the value of the second.
C26_FirstAliasWithValue == pc \in {"flat", "seaf2"} => AliasFieldsTaken

\* the part of C26 xlsx_to_yaml.py keeps
C26_FlatAliases == pc = "flat" => AliasFieldsTaken

-----------------------------------------------------------------------------
(* The collections of a run over several workbooks *)

\* the ids the rows of a sheet give, over all the workbooks of the run
RunHasIds(books, sheet, col, ids) ==
    \A f \in 1..Len(books) :
        books[f].exists => SeqToSet(AcceptedIds(books[f].sheets, sheet, col)) \subseteq ids

\* C27: at the end of a run of xlsx_to_yaml.py the collection of regions and
\* the collection of KB services hold the entities of every workbook of the
\* run that has the sheet, those of an earlier workbook as well as those of a
\* later one.
C27_EarlierWorkbookKept ==
    pc = "validated" =>
        /\ RunHasIds(inputs, SheetRegions, "ID Regiona",
                     DictIds(ReadKey(out_dir, FnRegion, "seaf.ta.services.dc_region")))
        /\ RunHasIds(inputs, SheetKB, "ID KB servisa",
                     DictIds(ReadKey(out_dir, FnKb, "seaf.ta.services.kb")))

-----------------------------------------------------------------------------
(* The segments created for the locations of a network *)

\* a network row that names one segment, a segment of the sheet with a title
\* and a zone, and at least one location
AutoCase(segs, e) ==
    /\ GetList(e, "location") # <<>>
    /\ Len(GetList(e, "segment")) = 1
    /\ e.segment[1] \in DictIds(segs)
    /\ Truthy(Get(DictVal(segs, e.segment[1]), "title"))
    /\ Truthy(SberGet(DictVal(segs, e.segment[1]), "zone"))

\* lines 559-572 for one network: every location is the location of a segment
\* of the network's list that is in the collection
LocationsCovered(segs, e) ==
    \A j \in 1..Len(GetList(e, "location")) :
        \E k \in 1..Len(GetList(e, "segment")) :
            /\ e.segment[k] \in DictIds(segs)
            /\ SberGet(DictVal(segs, e.segment[k]), "location") = e.location[j]

\* C28: after xlsx_to_yaml.py has converted one workbook, a network whose row
\* names one segment of the sheet that has a title and a zone, and that has a
\* location, has each of its locations as the location of a segment of its
\* list, and every segment added to its list is in the segment collection.
C28_AutoCreatedCoversLocations ==
    (pc = "validated" /\ Len(inputs) = 1 /\ HasSheet(inputs[1].sheets, SheetNetworks)) =>
        LET segst == FlatSegments(inputs[1].sheets, 1, <<>>)
            netst == FlatNetworks(inputs[1].sheets, 1, segst.err)
            segs == ReadKey(out_dir, FnSegment, "seaf.ta.services.network_segment")
            nets == FlatLoadNetworks(out_dir)
        IN  \A i \in 1..Len(netst.d) :
                (AutoCase(segst.d, netst.d[i].e) /\ netst.d[i].id \in DictIds(nets)) =>
                    LET e == DictVal(nets, netst.d[i].id)
                    IN  /\ LocationsCovered(segs, e)
                        /\ SeqToSet(GetList(e, "segment")) \ {netst.d[i].e.segment[1]}
                               \subseteq DictIds(segs)

-----------------------------------------------------------------------------
(* id_clean applied to what id_clean returned *)

\* the length of the text of a cell
MaxCellLen == 3

\* the cells id_clean is given: no cell, an empty cell, a number, a text
IdCells ==
    {NoneV, NaN, <<"int", "7">>, <<"float", "7">>}
    \cup SeqsUpTo({"n", "a", "x", " ", "\t"}, MaxCellLen)

\* svc_cell is the cell
InitClean ==
    /\ pc = "cell" /\ svc_cell \in IdCells
    /\ out_dir = <<>> /\ inputs = <<>> /\ fidx = 1 /\ doc_first = <<>>
    /\ processed = FALSE /\ src_counts = <<>> /\ dst_counts = <<>> /\ stderr = <<>>
    /\ exit_code = "running" /\ run = 1 /\ xlsx_out = <<>> /\ derived = NoneV
    /\ report = <<>> /\ svc_val = NoneV /\ svc_type = NoneV /\ net_id = NoneV

\* id_clean of xlsx_to_yaml.py, and id_clean of what it returned
CleanSeaf1 ==
    /\ pc = "cell"
    /\ report' = seaf1_id_clean(svc_cell)
    /\ derived' = seaf1_id_clean(report')
    /\ pc' = "seaf1"
    /\ UNCHANGED <<inputs, fidx, out_dir, processed, src_counts, dst_counts, stderr, exit_code, run,
                   doc_first, xlsx_out, net_id, svc_val, svc_cell, svc_type>>

\* id_clean of _seaf2_xlsx_to_yaml.py, and id_clean of what it returned
CleanSeaf2 ==
    /\ pc = "cell"
    /\ report' = id_clean(svc_cell)
    /\ derived' = id_clean(report')
    /\ pc' = "seaf2"
    /\ UNCHANGED <<inputs, fidx, out_dir, processed, src_counts, dst_counts, stderr, exit_code, run,
                   doc_first, xlsx_out, net_id, svc_val, svc_cell, svc_type>>

NextClean == CleanSeaf1 \/ CleanSeaf2

SpecClean == InitClean /\ [][NextClean]_vars

\* C29: what id_clean returns for a cell is null, or a string that is not
\* empty, holds no white space and is returned unchanged by id_clean.
C29_IdCleanIdempotent ==
    pc \in {"seaf1", "seaf2"} =>
        \/ report = NoneV
        \/ /\ report # <<>>
           /\ SeqToSet(report) \cap WhiteSpace = {}
           /\ derived = report

\* the part of C29 that holds: null, or not empty and without white space
C29_NoWhiteSpace ==
    pc \in {"seaf1", "seaf2"} =>
        report = NoneV \/ (report # <<>> /\ SeqToSet(report) \cap WhiteSpace = {})

=============================================================================
